---- MODULE Spec2Model ----
(***************************************************************************)
(* Boundary detection, attendance extraction and consolidation of the ADA  *)
(* audit scripts: print_ada_consolidation_FIXED.py (the console script)    *)
(* and ADA_Audit_GUI.py (the desktop front end).                           *)
(*                                                                         *)
(* Conventions.                                                            *)
(*   - A Python value that may be None is a sequence of length 0 or 1.     *)
(*   - A sheet is the DataFrame of pd.read_excel(..., header=None): a      *)
(*     sequence of rows; a row keeps the four columns the scripts read,    *)
(*     c1 (program name), c2 (month), c4 (age band), c35 (attendance).     *)
(*   - A cell is a Python value: NaN, an int, a float or a str.            *)
(*   - A Python str that the scripts format or split is a sequence of      *)
(*     atoms (pieces that hold no "_"), the separator "_" being an atom of *)
(*     its own, so that formatting is concatenation and split is a scan.   *)
(*   - Attendance magnitudes are integers in tenths (35 is 3.5).           *)
(***************************************************************************)
EXTENDS Integers, Sequences, FiniteSets, Bags, TLC

VARIABLES
    pc,                             \* position of the running script / handler
    student_attendance_data,        \* the loaded sheet (None before loading)
    program_boundaries,             \* code -> [start, stop]
    monthly_attendance_by_program,  \* sequence of <<month, rows>> in insertion order
    available_months,               \* console script, STEP 7
    writes,                         \* the assignments extraction made, in order
    raw_attendance_data,            \* key -> attendance value
    extracted_attendance_data,      \* GUI: the consolidated map (None before a run)
    all_keys,                       \* console script, STEP 9: keys generated
    printed,                        \* console script, STEP 9: <<key, total>> lines
    input_file_path,                \* GUI
    output_file_path,               \* GUI
    run_button,                     \* GUI: state of the Run button
    audit_threads,                  \* GUI: execute_audit_process threads running
    list_of_row_numbers,            \* argument of find_program_boundary_rows
    boundary_rows,                  \* its result, <<first_row, last_row>>
    matching_row_numbers,           \* what each scan returned, by what it looked for
    progress_var,                   \* GUI: value of the progress bar
    saved_configurations,           \* GUI: name -> configuration held in memory
    settings_directory,             \* GUI: name -> boundaries in "<name>.json"
    boundary_data,                  \* GUI: rows of the boundary table, for sorting
    sort_column,                    \* GUI: None or the column sorted by
    sort_reverse,                   \* GUI: descending
    boundaries_tree                 \* GUI: rows the boundary table displays

vars == <<pc, student_attendance_data, program_boundaries,
          monthly_attendance_by_program, available_months, writes,
          raw_attendance_data, extracted_attendance_data, all_keys, printed,
          input_file_path, output_file_path, run_button, audit_threads,
          list_of_row_numbers, boundary_rows, matching_row_numbers,
          progress_var, saved_configurations, settings_directory,
          boundary_data, sort_column, sort_reverse, boundaries_tree>>

\* The names under which the user saves boundary configurations.
ConfigNames == {"baseline"}

config_vars == <<saved_configurations, settings_directory>>
table_vars == <<boundary_data, sort_column, sort_reverse, boundaries_tree>>

(***************************************************************************)
(* Python values                                                           *)
(***************************************************************************)
None == <<>>
Some(x) == <<x>>

NaN == [t |-> "nan"]
IntCell(n) == [t |-> "int", n |-> n]
FloatCell(n, f) == [t |-> "float", n |-> n, f |-> f]    \* the float n.f, f a digit
StrCell(s) == [t |-> "str", s |-> s]

\* pd.isna(cell_value)
isna(cell) == cell.t = "nan"

\* int(cell_value): Some(n), or None when Python raises ValueError.  A float
\* is truncated; a str is parsed as a decimal numeral.
int(cell) ==
    CASE cell.t = "int" -> Some(cell.n)
      [] cell.t = "float" -> Some(cell.n)
      [] cell.t = "str" ->
            IF \E n \in 0..99 : ToString(n) = cell.s
            THEN Some(CHOOSE n \in 0..99 : ToString(n) = cell.s)
            ELSE None

\* The text an f-string puts for {cell}: str(3) = "3", str(3.0) = "3.0".
format(cell) ==
    CASE cell.t = "int" -> <<ToString(cell.n)>>
      [] cell.t = "float" -> <<ToString(cell.n) \o "." \o ToString(cell.f)>>
      [] cell.t = "str" -> <<cell.s>>
      [] cell.t = "nan" -> <<"nan">>

(***************************************************************************)
(* Static configuration                                                    *)
(***************************************************************************)
Prog_C == <<"Prog", "_", "C">>
Prog_C_TK == <<"Prog", "_", "C", "_", "TK">>
Prog_C_CM == <<"Prog", "_", "C", "_", "CM">>
Prog_C_SYC == <<"Prog", "_", "C", "_", "SYC">>
Prog_N == <<"Prog", "_", "N">>
Prog_N_TK == <<"Prog", "_", "N", "_", "TK">>
Prog_N_CM == <<"Prog", "_", "N", "_", "CM">>
Prog_N_SYC == <<"Prog", "_", "N", "_", "SYC">>
Prog_J == <<"Prog", "_", "J">>
Prog_J_TK == <<"Prog", "_", "J", "_", "TK">>
Prog_K == <<"Prog", "_", "K">>
Prog_K_TK == <<"Prog", "_", "K", "_", "TK">>

\* The dict, as its items in insertion order.
program_name_mappings == <<
    <<"Program C Charter Resident", Prog_C>>,
    <<"Program C Charter Resident -  Transitional Kindergarten(TK)", Prog_C_TK>>,
    <<"Program C Charter Resident -  McClellan(CM)", Prog_C_CM>>,
    <<"Program C Charter Resident -  Sac Youth Center(SYC)", Prog_C_SYC>>,
    <<"Program N Non-Resident Charter", Prog_N>>,
    <<"Program N Non-Resident Charter -  Transitional Kindergarten(TK)", Prog_N_TK>>,
    <<"Program N Non-Resident Charter -  McClellan(CM)", Prog_N_CM>>,
    <<"Program N Non-Resident Charter -  Sac Youth Center(SYC)", Prog_N_SYC>>,
    <<"Program J Indep Study Charter Resident", Prog_J>>,
    <<"Program J Indep Study Charter Non-Resident -  Transitional Kindergarten(TK)", Prog_J_TK>>,
    <<"Program K Indep Study Charter Non-Resident", Prog_K>>,
    <<"Program K Indep Study Charter Non-Resident -  Transitional Kindergarten(TK)", Prog_K_TK>> >>

program_consolidation_rulesMutantSharedChild == <<
    <<Prog_C, <<Prog_C, Prog_C_CM, Prog_C_SYC>> >>,
    <<Prog_C_TK, <<Prog_C_TK, Prog_C_CM>> >>,
    <<Prog_N, <<Prog_N, Prog_N_CM, Prog_N_SYC>> >>,
    <<Prog_N_TK, <<Prog_N_TK>> >>,
    <<Prog_J, <<Prog_J>> >>,
    <<Prog_J_TK, <<Prog_J_TK>> >>,
    <<Prog_K, <<Prog_K>> >>,
    <<Prog_K_TK, <<Prog_K_TK>> >> >>

program_consolidation_rules == <<
    <<Prog_C, <<Prog_C, Prog_C_CM, Prog_C_SYC>> >>,
    <<Prog_C_TK, <<Prog_C_TK>> >>,
    <<Prog_N, <<Prog_N, Prog_N_CM, Prog_N_SYC>> >>,
    <<Prog_N_TK, <<Prog_N_TK>> >>,
    <<Prog_J, <<Prog_J>> >>,
    <<Prog_J_TK, <<Prog_J_TK>> >>,
    <<Prog_K, <<Prog_K>> >>,
    <<Prog_K_TK, <<Prog_K_TK>> >> >>

age_groups == <<"TK-3", "4-6", "7-8", "9-12">>

\* range(1, 13)
LastMonth == 12
month_range == [i \in 1..LastMonth |-> i]

\* program_name_mappings.values(), in order, and as a set
short_codes == [i \in 1..Len(program_name_mappings) |-> program_name_mappings[i][2]]
Codes == {short_codes[i] : i \in 1..Len(short_codes)}
FullNames == {program_name_mappings[i][1] : i \in 1..Len(program_name_mappings)}

(***************************************************************************)
(* Row Scanner                                                             *)
(***************************************************************************)
RECURSIVE scan_fromMutantZeroBased(_, _, _)
scan_fromMutantZeroBased(flags, i, acc) ==
    IF i > Len(flags) THEN acc
    ELSE scan_fromMutantZeroBased(flags, i + 1,
                                  IF flags[i] THEN Append(acc, i - 1) ELSE acc)

\* The 1-based indices i with flags[i], ascending: the enumerate(..., start=1)
\* loop with its append, flags[i] being the test the loop makes on cell i.
RECURSIVE scan_from(_, _, _)
scan_from(flags, i, acc) ==
    IF i > Len(flags) THEN acc
    ELSE scan_from(flags, i + 1, IF flags[i] THEN Append(acc, i) ELSE acc)

\* cell_value == program_name_to_find
program_name_matches(cell_value, program_name_to_find) ==
    cell_value.t = "str" /\ cell_value.s = program_name_to_find

find_rows_containing_program_name(student_data, program_name_to_find) ==
    scan_from([i \in 1..Len(student_data) |->
                  program_name_matches(student_data[i].c1, program_name_to_find)],
              1, <<>>)

\* The body of the month loop: skip NaN, skip ValueError, compare int(cell).
month_matches(cell_value, month_number_to_find) ==
    /\ ~isna(cell_value)
    /\ int(cell_value) # None
    /\ int(cell_value)[1] = month_number_to_find

find_rows_containing_month_number(student_data, month_number_to_find) ==
    scan_from([i \in 1..Len(student_data) |->
                  month_matches(student_data[i].c2, month_number_to_find)],
              1, <<>>)

(***************************************************************************)
(* Boundary Resolver                                                       *)
(***************************************************************************)
Range(s) == {s[i] : i \in 1..Len(s)}
min(s) == CHOOSE x \in Range(s) : \A y \in Range(s) : x <= y
max(s) == CHOOSE x \in Range(s) : \A y \in Range(s) : x >= y

find_program_boundary_rowsMutantFirstLast(rows) ==
    IF rows = <<>> THEN <<None, None>>
    ELSE <<Some(rows[1]), Some(rows[Len(rows)])>>

find_program_boundary_rows(rows) ==
    IF rows = <<>> THEN <<None, None>>
    ELSE <<Some(min(rows)), Some(max(rows))>>

\* Lines 184-186 / GUI 112-114: every code starts as {"start": None, "stop": None}.
empty_boundaries == [c \in Codes |-> [start |-> None, stop |-> None]]

RECURSIVE find_program_boundaries_fromMutantKeepUnmatched(_, _, _)
find_program_boundaries_fromMutantKeepUnmatched(student_data, boundaries, i) ==
    IF i > Len(program_name_mappings) THEN boundaries
    ELSE LET full_program_name == program_name_mappings[i][1]
             short_code == program_name_mappings[i][2]
             matching_rows ==
                 find_rows_containing_program_name(student_data, full_program_name)
             found == find_program_boundary_rows(matching_rows)
         IN  find_program_boundaries_fromMutantKeepUnmatched(
                 student_data,
                 IF matching_rows = <<>> THEN boundaries
                 ELSE [boundaries EXCEPT ![short_code] =
                          [start |-> found[1], stop |-> found[2]]],
                 i + 1)

\* The loop over program_name_mappings.items(), from item i on.
RECURSIVE find_program_boundaries_from(_, _, _)
find_program_boundaries_from(student_data, boundaries, i) ==
    IF i > Len(program_name_mappings) THEN boundaries
    ELSE LET full_program_name == program_name_mappings[i][1]
             short_code == program_name_mappings[i][2]
             matching_rows ==
                 find_rows_containing_program_name(student_data, full_program_name)
             found == find_program_boundary_rows(matching_rows)
         IN  find_program_boundaries_from(
                 student_data,
                 [boundaries EXCEPT ![short_code] =
                     [start |-> found[1], stop |-> found[2]]],
                 i + 1)

find_program_boundaries(student_data, boundaries) ==
    find_program_boundaries_from(student_data, boundaries, 1)

adjust_Prog_CMutantWrongStart(b) ==
    LET prog_C_tk_start == b[Prog_C_TK].start
        prog_N_start == b[Prog_N].start
    IN  IF prog_C_tk_start # None /\ prog_N_start # None
        THEN [b EXCEPT ![Prog_C].stop = Some(prog_N_start[1] - 1)]
        ELSE b

\* if prog_C_tk_start is not None and prog_N_start is not None:
\*     program_boundaries["Prog_C"]["stop"] = prog_C_tk_start - 1
adjust_Prog_C(b) ==
    LET prog_C_tk_start == b[Prog_C_TK].start
        prog_N_start == b[Prog_N].start
    IN  IF prog_C_tk_start # None /\ prog_N_start # None
        THEN [b EXCEPT ![Prog_C].stop = Some(prog_C_tk_start[1] - 1)]
        ELSE b

adjust_Prog_C_TKMutantFillStart(b, prog_N_start) ==
    IF prog_N_start # None
    THEN [b EXCEPT ![Prog_C_TK] =
             [start |-> IF b[Prog_C_TK].start = None THEN Some(1)
                        ELSE b[Prog_C_TK].start,
              stop |-> Some(prog_N_start[1] - 1)]]
    ELSE b

\* if prog_N_start is not None:
\*     program_boundaries["Prog_C_TK"]["stop"] = prog_N_start - 1
\* (prog_N_start was read before the first rule; no rule writes a start)
adjust_Prog_C_TK(b, prog_N_start) ==
    IF prog_N_start # None
    THEN [b EXCEPT ![Prog_C_TK].stop = Some(prog_N_start[1] - 1)]
    ELSE b

adjust_Prog_NMutantOverwrite(b) ==
    LET prog_N_tk_start == b[Prog_N_TK].start
    IN  IF prog_N_tk_start # None
        THEN [b EXCEPT ![Prog_N].stop = Some(prog_N_tk_start[1] - 1),
                       ![Prog_C_TK].stop = Some(prog_N_tk_start[1] - 1)]
        ELSE b

\* prog_N_tk_start = program_boundaries["Prog_N_TK"]["start"]
\* if prog_N_tk_start is not None:
\*     program_boundaries["Prog_N"]["stop"] = prog_N_tk_start - 1
adjust_Prog_N(b) ==
    LET prog_N_tk_start == b[Prog_N_TK].start
    IN  IF prog_N_tk_start # None
        THEN [b EXCEPT ![Prog_N].stop = Some(prog_N_tk_start[1] - 1)]
        ELSE b

programs_to_adjust == <<Prog_N_TK, Prog_J, Prog_K>>

adjust_pairMutantNextStop(b, i) ==
    LET current_program == programs_to_adjust[i]
        next_program == programs_to_adjust[i + 1]
        current_start == b[current_program].start
        next_stop == b[next_program].stop
    IN  IF current_start # None /\ next_stop # None
        THEN [b EXCEPT ![current_program].stop = Some(next_stop[1] - 1)]
        ELSE b

adjust_pairMutantSelfBound(b, i) ==
    LET current_program == programs_to_adjust[i]
        next_program == programs_to_adjust[i + 1]
        current_start == b[current_program].start
        next_start == b[next_program].start
    IN  IF current_start # None /\ next_start # None
        THEN [b EXCEPT ![current_program].stop = Some(next_start[1] - 1)]
        ELSE IF current_start # None
             THEN [b EXCEPT ![current_program].stop = current_start]
             ELSE b

\* One turn of the loop over range(len(programs_to_adjust) - 1); i is 1-based.
adjust_pair(b, i) ==
    LET current_program == programs_to_adjust[i]
        next_program == programs_to_adjust[i + 1]
        current_start == b[current_program].start
        next_start == b[next_program].start
    IN  IF current_start # None /\ next_start # None
        THEN [b EXCEPT ![current_program].stop = Some(next_start[1] - 1)]
        ELSE b

RECURSIVE adjust_chain_from(_, _)
adjust_chain_from(b, i) ==
    IF i > Len(programs_to_adjust) - 1 THEN b
    ELSE adjust_chain_from(adjust_pair(b, i), i + 1)

adjust_program_boundaries(b) ==
    LET prog_N_start == b[Prog_N].start
    IN  adjust_chain_from(
            adjust_Prog_N(adjust_Prog_C_TK(adjust_Prog_C(b), prog_N_start)), 1)

(***************************************************************************)
(* Attendance Extractor                                                    *)
(***************************************************************************)
\* f"{program_code}_Month_{month_value}_{age_group}: "
field_name(program_code, month_text, age_text) ==
    program_code \o <<"_", "Month", "_">> \o month_text \o <<"_">> \o age_text
        \o <<": ">>

row_in_boundaryMutantOpenEnd(boundary_info, current_row_number) ==
    /\ boundary_info.start # None
    /\ boundary_info.start[1] <= current_row_number
    /\ boundary_info.stop # None => current_row_number <= boundary_info.stop[1]

row_in_boundaryMutantExclusiveStop(boundary_info, current_row_number) ==
    /\ boundary_info.start # None
    /\ boundary_info.stop # None
    /\ boundary_info.start[1] <= current_row_number
    /\ current_row_number < boundary_info.stop[1]

\* if start is not None and stop is not None: if start <= row <= stop:
row_in_boundary(boundary_info, current_row_number) ==
    /\ boundary_info.start # None
    /\ boundary_info.stop # None
    /\ boundary_info.start[1] <= current_row_number
    /\ current_row_number <= boundary_info.stop[1]

\* The assignment one (row, program) pair makes: d[key] = value.  The row and
\* the program are kept with it to tell the assignments apart.
row_write(program_code, current_row_number, student_data) ==
    LET age_group == student_data[current_row_number].c4
        month_value == student_data[current_row_number].c2
        attendance_value == student_data[current_row_number].c35
    IN  [key |-> field_name(program_code, format(month_value), format(age_group)),
         value |-> attendance_value,
         row |-> current_row_number,
         program |-> program_code]

\* The innermost loop, over program_boundary_info.items(), from code i on.
RECURSIVE program_loop(_, _, _, _)
program_loop(current_row_number, program_boundary_info, student_data, i) ==
    IF i > Len(short_codes) THEN <<>>
    ELSE (IF row_in_boundary(program_boundary_info[short_codes[i]], current_row_number)
          THEN <<row_write(short_codes[i], current_row_number, student_data)>>
          ELSE <<>>)
         \o program_loop(current_row_number, program_boundary_info, student_data, i + 1)

\* The loop over rows_with_this_month, from position j on.
RECURSIVE row_loop(_, _, _, _)
row_loop(rows_with_this_month, program_boundary_info, student_data, j) ==
    IF j > Len(rows_with_this_month) THEN <<>>
    ELSE program_loop(rows_with_this_month[j], program_boundary_info, student_data, 1)
         \o row_loop(rows_with_this_month, program_boundary_info, student_data, j + 1)

\* The loop over monthly_attendance_by_program.items(), from item k on:
\* every assignment to attendance_data_dictionary, in the order made.
RECURSIVE month_loop(_, _, _, _)
month_loop(monthly, program_boundary_info, student_data, k) ==
    IF k > Len(monthly) THEN <<>>
    ELSE row_loop(monthly[k][2], program_boundary_info, student_data, 1)
         \o month_loop(monthly, program_boundary_info, student_data, k + 1)

extract_writes(monthly, program_boundary_info, student_data) ==
    month_loop(monthly, program_boundary_info, student_data, 1)

\* The dict left by the assignments d[ws[i].key] = ws[i].value made in turn on
\* an empty dict, were each key to keep the value first assigned to it.
dict_ofMutantKeepFirst(ws) ==
    [key \in {ws[i].key : i \in 1..Len(ws)} |->
        ws[CHOOSE i \in 1..Len(ws) :
               /\ ws[i].key = key
               /\ \A j \in 1..(i - 1) : ws[j].key # key].value]

\* The dict left by the assignments d[ws[i].key] = ws[i].value made in turn on
\* an empty dict: each key holds the value last assigned to it.
dict_of(ws) ==
    [key \in {ws[i].key : i \in 1..Len(ws)} |->
        ws[CHOOSE i \in 1..Len(ws) :
               /\ ws[i].key = key
               /\ \A j \in (i + 1)..Len(ws) : ws[j].key # key].value]

extract_student_attendance_data(monthly, program_boundary_info, student_data) ==
    dict_of(extract_writes(monthly, program_boundary_info, student_data))

(***************************************************************************)
(* Consolidator                                                            *)
(***************************************************************************)
\* A numeric cell in tenths.
tenths(cell) ==
    CASE cell.t = "int" -> 10 * cell.n
      [] cell.t = "float" -> 10 * cell.n + cell.f

\* bool(child_value): NaN is true, a number is true unless it is zero, a str
\* is true unless it is empty.
truthy(cell) ==
    CASE cell.t = "nan" -> TRUE
      [] cell.t = "str" -> cell.s # ""
      [] OTHER -> tenths(cell) # 0

\* child_value != 0: a str is never equal to 0.
not_zero(cell) ==
    CASE cell.t = "nan" -> TRUE
      [] cell.t = "str" -> TRUE
      [] OTHER -> tenths(cell) # 0

\* child_value and not pd.isna(child_value) and child_value != 0
child_counts(child_value) ==
    /\ truthy(child_value)
    /\ ~isna(child_value)
    /\ not_zero(child_value)

\* total_value += child_value raises TypeError when child_value is a str.
raises_TypeError(child_value) ==
    child_counts(child_value) /\ child_value.t = "str"

\* raw_attendance_data.get(child_field_pattern, 0)
dict_get(d, key, default) == IF key \in DOMAIN d THEN d[key] ELSE default

RECURSIVE sum_childrenMutantAssign(_, _, _, _, _, _)
sum_childrenMutantAssign(child_programs, month, age_group, raw, i, total_value) ==
    IF i > Len(child_programs) THEN total_value
    ELSE LET child_field_pattern == field_name(child_programs[i], month, age_group)
             child_value == dict_get(raw, child_field_pattern, IntCell(0))
         IN  sum_childrenMutantAssign(child_programs, month, age_group, raw, i + 1,
                 IF child_counts(child_value)
                 THEN tenths(child_value)
                 ELSE total_value)

\* The loop over child_programs from child i on, total_value in tenths;
\* month and age_group are the texts put in the child's key.
RECURSIVE sum_children(_, _, _, _, _, _)
sum_children(child_programs, month, age_group, raw, i, total_value) ==
    IF i > Len(child_programs) THEN total_value
    ELSE LET child_field_pattern == field_name(child_programs[i], month, age_group)
             child_value == dict_get(raw, child_field_pattern, IntCell(0))
         IN  sum_children(child_programs, month, age_group, raw, i + 1,
                 IF child_counts(child_value)
                 THEN total_value + tenths(child_value)
                 ELSE total_value)

\* The loop over child_programs reaches a child whose value makes += raise.
sum_children_raises(child_programs, month, age_group, raw) ==
    \E i \in 1..Len(child_programs) :
        raises_TypeError(dict_get(raw, field_name(child_programs[i], month, age_group),
                                  IntCell(0)))

\* GUI: the loops over the rules, range(1, 13) and the age groups, flattened
\* in loop order; position n is rule r, month m, age group a.
consolidation_steps ==
    Len(program_consolidation_rules) * LastMonth * Len(age_groups)
step_rule(n) == ((n - 1) \div (LastMonth * Len(age_groups))) + 1
step_month(n) == month_range[(((n - 1) \div Len(age_groups)) % LastMonth) + 1]
step_age(n) == age_groups[((n - 1) % Len(age_groups)) + 1]

consolidated_entryMutantFirstMonth(raw, n) ==
    LET parent_program == program_consolidation_rules[step_rule(n)][1]
        child_programs == program_consolidation_rules[step_rule(n)][2]
        month == format(IntCell(step_month(n)))
        age_group == <<step_age(n)>>
    IN  [key |-> field_name(parent_program, month, age_group),
         value |-> sum_children(child_programs, format(IntCell(month_range[1])),
                                age_group, raw, 1, 0)]

\* consolidated_attendance_data[field_pattern] = total_value, step n
consolidated_entry(raw, n) ==
    LET parent_program == program_consolidation_rules[step_rule(n)][1]
        child_programs == program_consolidation_rules[step_rule(n)][2]
        month == format(IntCell(step_month(n)))
        age_group == <<step_age(n)>>
    IN  [key |-> field_name(parent_program, month, age_group),
         value |-> sum_children(child_programs, month, age_group, raw, 1, 0)]

\* Some step of consolidate_attendance_data raises TypeError.
consolidate_raises(raw) ==
    \E n \in 1..consolidation_steps :
        sum_children_raises(program_consolidation_rules[step_rule(n)][2],
                            format(IntCell(step_month(n))), <<step_age(n)>>, raw)

consolidate_attendance_dataMutantSkipZero(raw) ==
    dict_of(SelectSeq([n \in 1..consolidation_steps |-> consolidated_entry(raw, n)],
                      LAMBDA e : e.value # 0))

consolidate_attendance_data(raw) ==
    dict_of([n \in 1..consolidation_steps |-> consolidated_entry(raw, n)])

(***************************************************************************)
(* Console script, STEP 9                                                  *)
(***************************************************************************)
generate_all_keysMutantMonthPositions(months) ==
    LET per_parent == Len(months) * Len(age_groups)
        total == Len(program_consolidation_rules) * per_parent
    IN  [n \in 1..total |->
            field_name(
                program_consolidation_rules[((n - 1) \div per_parent) + 1][1],
                format(IntCell((((n - 1) \div Len(age_groups)) % Len(months)) + 1)),
                <<age_groups[((n - 1) % Len(age_groups)) + 1]>>)]

\* all_keys: parents x available months x age groups, in loop order.
generate_all_keys(months) ==
    LET per_parent == Len(months) * Len(age_groups)
        total == Len(program_consolidation_rules) * per_parent
    IN  [n \in 1..total |->
            field_name(
                program_consolidation_rules[((n - 1) \div per_parent) + 1][1],
                format(IntCell(months[(((n - 1) \div Len(age_groups)) % Len(months)) + 1])),
                <<age_groups[((n - 1) % Len(age_groups)) + 1]>>)]

\* s.split('_Month_')[0]: the text before the first "_Month_" (all of s if none).
RECURSIVE before_Month(_, _)
before_Month(s, i) ==
    IF i > Len(s) THEN s
    ELSE IF i + 2 <= Len(s) /\ SubSeq(s, i, i + 2) = <<"_", "Month", "_">>
         THEN SubSeq(s, 1, i - 1)
         ELSE before_Month(s, i + 1)

\* s.replace(": ", "")
RECURSIVE remove_colon(_)
remove_colon(s) ==
    IF s = <<>> THEN <<>>
    ELSE (IF Head(s) = ": " THEN <<>> ELSE <<Head(s)>>) \o remove_colon(Tail(s))

\* s.split("_"): the parts between the separators, each part one text.
RECURSIVE split_underscore(_, _, _)
split_underscore(s, i, part) ==
    IF i > Len(s) THEN <<part>>
    ELSE IF s[i] = "_" THEN <<part>> \o split_underscore(s, i + 1, "")
         ELSE split_underscore(s, i + 1, part \o s[i])

\* parts.index("Month"), 1-based
index_of_Month(parts) == CHOOSE i \in 1..Len(parts) :
    parts[i] = "Month" /\ \A j \in 1..(i - 1) : parts[j] # "Month"

\* "_".join(parts)
RECURSIVE join_underscore(_)
join_underscore(parts) ==
    IF parts = <<>> THEN <<>>
    ELSE IF Len(parts) = 1 THEN <<parts[1]>>
         ELSE <<parts[1], "_">> \o join_underscore(Tail(parts))

\* program_consolidation_rules.get(parent_program, [parent_program])
rules_get(parent_program) ==
    IF \E r \in 1..Len(program_consolidation_rules) :
           program_consolidation_rules[r][1] = parent_program
    THEN program_consolidation_rules[
             CHOOSE r \in 1..Len(program_consolidation_rules) :
                 program_consolidation_rules[r][1] = parent_program][2]
    ELSE <<parent_program>>

\* total_value of one field_pattern of all_keys (lines 322-345)
print_total(field_pattern, raw) ==
    LET parent_program == before_Month(field_pattern, 1)
        child_programs == rules_get(parent_program)
        parts == split_underscore(remove_colon(field_pattern), 1, "")
        month_idx == index_of_Month(parts) + 1
        month == <<parts[month_idx]>>
        age_group == join_underscore(SubSeq(parts, month_idx + 1, Len(parts)))
    IN  sum_children(child_programs, month, age_group, raw, 1, 0)

\* The child loop of one field_pattern of all_keys raises TypeError.
print_raises(field_pattern, raw) ==
    LET parent_program == before_Month(field_pattern, 1)
        child_programs == rules_get(parent_program)
        parts == split_underscore(remove_colon(field_pattern), 1, "")
        month_idx == index_of_Month(parts) + 1
        month == <<parts[month_idx]>>
        age_group == join_underscore(SubSeq(parts, month_idx + 1, Len(parts)))
    IN  sum_children_raises(child_programs, month, age_group, raw)

\* The keys of all_keys processed before the first one that raises (all of
\* them when none does).
keys_before_raise(keys, raw) ==
    LET raising == {n \in 1..Len(keys) : print_raises(keys[n], raw)}
    IN  IF raising = {} THEN keys
        ELSE SubSeq(keys, 1, (CHOOSE n \in raising : \A k \in raising : n <= k) - 1)

\* The lines printed: <<field_pattern, total_value>> where total_value > 0.
RECURSIVE print_lines(_, _, _)
print_lines(keys, raw, i) ==
    IF i > Len(keys) THEN <<>>
    ELSE LET total_value == print_total(keys[i], raw)
         IN  (IF total_value > 0 THEN << <<keys[i], total_value>> >> ELSE <<>>)
             \o print_lines(keys, raw, i + 1)

(***************************************************************************)
(* pd.read_excel(path, header=None)                                        *)
(***************************************************************************)
\* A cell of the workbook: empty, a number n.f, or a text.
Empty == [k |-> "empty"]
Num(n) == [k |-> "num", n |-> n, f |-> 0]
Frac(n, f) == [k |-> "num", n |-> n, f |-> f]
Text(s) == [k |-> "text", s |-> s]

\* The dtype pandas gives a column: object when it holds a text, int64 when
\* every cell is a whole number, float64 otherwise.
column_dtype(cells) ==
    IF \E c \in cells : c.k = "text" THEN "object"
    ELSE IF cells # {} /\ \A c \in cells : c.k = "num" /\ c.f = 0 THEN "int64"
    ELSE "float64"

\* The Python value of a workbook cell in a column of that dtype.
cell_value(c, dtype) ==
    CASE c.k = "empty" -> NaN
      [] c.k = "text" -> StrCell(c.s)
      [] c.k = "num" ->
            IF dtype = "int64" \/ (dtype = "object" /\ c.f = 0)
            THEN IntCell(c.n)
            ELSE FloatCell(c.n, c.f)

read_excel(workbook) ==
    LET rows == 1..Len(workbook)
        d1 == column_dtype({workbook[i].c1 : i \in rows})
        d2 == column_dtype({workbook[i].c2 : i \in rows})
        d4 == column_dtype({workbook[i].c4 : i \in rows})
        d35 == column_dtype({workbook[i].c35 : i \in rows})
    IN  [i \in rows |->
            [c1 |-> cell_value(workbook[i].c1, d1),
             c2 |-> cell_value(workbook[i].c2, d2),
             c4 |-> cell_value(workbook[i].c4, d4),
             c35 |-> cell_value(workbook[i].c35, d35)]]

\* The workbooks of 1..max_rows rows whose columns draw from the given cells.
Workbooks(max_rows, C1, C2, C4, C35) ==
    UNION {[1..n -> [c1 : C1, c2 : C2, c4 : C4, c35 : C35]] : n \in 1..max_rows}

\* {}
NoDict == <<>>

(***************************************************************************)
(* find_program_boundary_rows on any list of row numbers                   *)
(***************************************************************************)
MaxLen == 3
MaxRowNumber == 4

RowLists == UNION {[1..n -> 1..MaxRowNumber] : n \in 0..MaxLen}

InitResolve ==
    /\ pc = "call"
    /\ list_of_row_numbers \in RowLists
    /\ boundary_rows = <<>>
    /\ matching_row_numbers = <<>>
    /\ progress_var = 0
    /\ saved_configurations = [name \in ConfigNames |-> None]
    /\ settings_directory = [name \in ConfigNames |-> None]
    /\ boundary_data = <<>>
    /\ sort_column = None
    /\ sort_reverse = FALSE
    /\ boundaries_tree = <<>>
    /\ student_attendance_data = None
    /\ program_boundaries = empty_boundaries
    /\ monthly_attendance_by_program = <<>>
    /\ available_months = <<>>
    /\ writes = <<>>
    /\ raw_attendance_data = NoDict
    /\ extracted_attendance_data = None
    /\ all_keys = <<>>
    /\ printed = <<>>
    /\ input_file_path = ""
    /\ output_file_path = ""
    /\ run_button = "disabled"
    /\ audit_threads = EmptyBag

Resolve ==
    /\ pc = "call"
    /\ boundary_rows' = find_program_boundary_rows(list_of_row_numbers)
    /\ pc' = "returned"
    /\ UNCHANGED <<student_attendance_data, program_boundaries,
                   monthly_attendance_by_program, available_months, writes,
                   raw_attendance_data, extracted_attendance_data, all_keys,
                   printed, input_file_path, output_file_path, run_button,
                   audit_threads, list_of_row_numbers,
                   matching_row_numbers, progress_var, config_vars,
                   table_vars>>

NextResolve == Resolve

SpecResolve == InitResolve /\ [][NextResolve]_vars

(***************************************************************************)
(* Console script, STEP 4 and STEP 5                                       *)
(***************************************************************************)
MaxBoundaryRows == 3

\* The sheets whose program-name column holds, in each row, the name of a
\* program the repair pass reads or writes, the name of one it leaves alone,
\* another text, or nothing.
BoundaryCodes ==
    {Prog_C, Prog_C_TK, Prog_C_CM, Prog_N, Prog_N_TK, Prog_J, Prog_K}

BoundaryNames ==
    {program_name_mappings[i][1] :
        i \in {i \in 1..Len(program_name_mappings) :
                  program_name_mappings[i][2] \in BoundaryCodes}}

BoundaryWorkbooks ==
    Workbooks(MaxBoundaryRows,
              {Text(n) : n \in BoundaryNames} \cup {Empty, Text("Total")},
              {Empty}, {Empty}, {Empty})

InitBoundary ==
    /\ pc = "STEP4"
    /\ \E workbook \in BoundaryWorkbooks :
           student_attendance_data = Some(read_excel(workbook))
    /\ program_boundaries = empty_boundaries
    /\ monthly_attendance_by_program = <<>>
    /\ available_months = <<>>
    /\ writes = <<>>
    /\ raw_attendance_data = NoDict
    /\ extracted_attendance_data = None
    /\ all_keys = <<>>
    /\ printed = <<>>
    /\ input_file_path = ""
    /\ output_file_path = ""
    /\ run_button = "disabled"
    /\ audit_threads = EmptyBag
    /\ list_of_row_numbers = <<>>
    /\ boundary_rows = <<>>
    /\ matching_row_numbers = <<>>
    /\ progress_var = 0
    /\ saved_configurations = [name \in ConfigNames |-> None]
    /\ settings_directory = [name \in ConfigNames |-> None]
    /\ boundary_data = <<>>
    /\ sort_column = None
    /\ sort_reverse = FALSE
    /\ boundaries_tree = <<>>

STEP4 ==
    /\ pc = "STEP4"
    /\ program_boundaries' =
           find_program_boundaries(student_attendance_data[1], empty_boundaries)
    /\ pc' = "STEP5"
    /\ UNCHANGED <<student_attendance_data, monthly_attendance_by_program,
                   available_months, writes, raw_attendance_data,
                   extracted_attendance_data, all_keys, printed,
                   input_file_path, output_file_path, run_button, audit_threads,
                   list_of_row_numbers, boundary_rows,
                   matching_row_numbers, progress_var, config_vars,
                   table_vars>>

STEP5 ==
    /\ pc = "STEP5"
    /\ program_boundaries' = adjust_program_boundaries(program_boundaries)
    /\ pc' = "STEP6"
    /\ UNCHANGED <<student_attendance_data, monthly_attendance_by_program,
                   available_months, writes, raw_attendance_data,
                   extracted_attendance_data, all_keys, printed,
                   input_file_path, output_file_path, run_button, audit_threads,
                   list_of_row_numbers, boundary_rows,
                   matching_row_numbers, progress_var, config_vars,
                   table_vars>>

NextBoundary == STEP4 \/ STEP5

SpecBoundary == InitBoundary /\ [][NextBoundary]_vars

(***************************************************************************)
(* Console script, STEP 7 and STEP 8, from any boundaries STEP 6 can leave *)
(***************************************************************************)
MaxExtractRows == 2

\* Workbooks whose month and age-band columns vary; the attendance of row i is
\* 5 * i, so that the rows of one sheet all differ in value.
ExtractWorkbooks ==
    UNION {{[i \in 1..n |->
                [c1 |-> Empty, c2 |-> months[i], c4 |-> ages[i], c35 |-> Num(5 * i)]] :
              months \in [1..n -> {Empty, Num(1), Num(2)}],
              ages \in [1..n -> {Text("4-6"), Text("7-8")}]} :
           n \in 1..MaxExtractRows}

\* STEP 6 stores what the user types for a program: each end None or an int.
Optional(S) == {None} \cup {Some(x) : x \in S}
TypedBoundaries(max_row) ==
    [start : Optional(1..max_row), stop : Optional(1..max_row)]

\* A complete span typed for a program, or nothing found and nothing typed.
TypedSpans(max_row) ==
    {[start |-> None, stop |-> None]}
        \cup {[start |-> Some(a), stop |-> Some(b)] : a, b \in 1..max_row}

\* The boundary sets in which the user typed the ends of Prog_C (anything) and
\* of Prog_C_TK (a span).
ExtractBoundaries ==
    {[empty_boundaries EXCEPT ![Prog_C] = b1, ![Prog_C_TK] = b2] :
        b1 \in TypedBoundaries(MaxExtractRows),
        b2 \in TypedSpans(MaxExtractRows)}

InitExtract ==
    /\ pc = "STEP7"
    /\ \E workbook \in ExtractWorkbooks :
           student_attendance_data = Some(read_excel(workbook))
    /\ program_boundaries \in ExtractBoundaries
    /\ monthly_attendance_by_program = <<>>
    /\ available_months = <<>>
    /\ writes = <<>>
    /\ raw_attendance_data = NoDict
    /\ extracted_attendance_data = None
    /\ all_keys = <<>>
    /\ printed = <<>>
    /\ input_file_path = ""
    /\ output_file_path = ""
    /\ run_button = "disabled"
    /\ audit_threads = EmptyBag
    /\ list_of_row_numbers = <<>>
    /\ boundary_rows = <<>>
    /\ matching_row_numbers = <<>>
    /\ progress_var = 0
    /\ saved_configurations = [name \in ConfigNames |-> None]
    /\ settings_directory = [name \in ConfigNames |-> None]
    /\ boundary_data = <<>>
    /\ sort_column = None
    /\ sort_reverse = FALSE
    /\ boundaries_tree = <<>>

\* The loop over range(1, 13) from month i on; only_available is the test
\* len(rows_with_this_month) > 0 of the console script (the GUI keeps every month).
RECURSIVE scan_months(_, _, _)
scan_months(student_data, only_available, i) ==
    IF i > Len(month_range) THEN <<>>
    ELSE LET month_number == month_range[i]
             rows_with_this_month ==
                 find_rows_containing_month_number(student_data, month_number)
         IN  (IF only_available /\ Len(rows_with_this_month) = 0
              THEN <<>>
              ELSE << <<month_number, rows_with_this_month>> >>)
             \o scan_months(student_data, only_available, i + 1)

STEP7 ==
    /\ pc = "STEP7"
    /\ LET monthly == scan_months(student_attendance_data[1], TRUE, 1)
       IN  /\ monthly_attendance_by_program' = monthly
           /\ available_months' = [k \in 1..Len(monthly) |-> monthly[k][1]]
    /\ pc' = "STEP8"
    /\ UNCHANGED <<student_attendance_data, program_boundaries, writes,
                   raw_attendance_data, extracted_attendance_data, all_keys,
                   printed, input_file_path, output_file_path, run_button,
                   audit_threads, list_of_row_numbers, boundary_rows,
                   matching_row_numbers, progress_var, config_vars,
                   table_vars>>

STEP8 ==
    /\ pc = "STEP8"
    /\ writes' = extract_writes(monthly_attendance_by_program, program_boundaries,
                                student_attendance_data[1])
    /\ raw_attendance_data' =
           extract_student_attendance_data(monthly_attendance_by_program,
                                           program_boundaries,
                                           student_attendance_data[1])
    /\ pc' = "STEP9"
    /\ UNCHANGED <<student_attendance_data, program_boundaries,
                   monthly_attendance_by_program, available_months,
                   extracted_attendance_data, all_keys, printed,
                   input_file_path, output_file_path, run_button, audit_threads,
                   list_of_row_numbers, boundary_rows,
                   matching_row_numbers, progress_var, config_vars,
                   table_vars>>

NextExtract == STEP7 \/ STEP8

SpecExtract == InitExtract /\ [][NextExtract]_vars

(***************************************************************************)
(* Consolidation of any raw map extraction can leave                       *)
(***************************************************************************)
MaxAttendance == 1

\* What the attendance column can hold for a row: NaN, a whole number, or a
\* number with a fraction.
AttendanceValues ==
    {NaN} \cup {IntCell(n) : n \in 0..MaxAttendance}
          \cup {FloatCell(n, 5) : n \in 0..MaxAttendance}

\* The raw maps with any of the keys of Prog_C and its two sub-locations for
\* month 3, age band 4-6; the month cell renders as "3" or, in a float column,
\* as "3.0".
ConsolidateRaws ==
    UNION {{[key \in {field_name(c, <<month_text>>, <<"4-6">>) :
                        c \in {c \in {Prog_C, Prog_C_CM, Prog_C_SYC} : v[c] # None}}
                |-> v[before_Month(key, 1)][1]] :
              v \in [{Prog_C, Prog_C_CM, Prog_C_SYC} -> Optional(AttendanceValues)]} :
           month_text \in {"3", "3.0"}}

InitConsolidate ==
    /\ raw_attendance_data \in ConsolidateRaws
    /\ \/ pc = "STEP9" /\ available_months \in {<<3>>, <<3, 5>>}
       \/ pc = "execute_audit_process" /\ available_months = <<>>
    /\ student_attendance_data = None
    /\ program_boundaries = empty_boundaries
    /\ monthly_attendance_by_program = <<>>
    /\ writes = <<>>
    /\ extracted_attendance_data = None
    /\ all_keys = <<>>
    /\ printed = <<>>
    /\ input_file_path = ""
    /\ output_file_path = ""
    /\ run_button = "disabled"
    /\ audit_threads = EmptyBag
    /\ list_of_row_numbers = <<>>
    /\ boundary_rows = <<>>
    /\ matching_row_numbers = <<>>
    /\ progress_var = 0
    /\ saved_configurations = [name \in ConfigNames |-> None]
    /\ settings_directory = [name \in ConfigNames |-> None]
    /\ boundary_data = <<>>
    /\ sort_column = None
    /\ sort_reverse = FALSE
    /\ boundaries_tree = <<>>

\* Console script: generate all_keys and print the consolidated totals; the
\* script ends with an uncaught TypeError when a child value is a str.
STEP9 ==
    /\ pc = "STEP9"
    /\ LET keys == generate_all_keys(available_months)
           processed == keys_before_raise(keys, raw_attendance_data)
       IN  /\ all_keys' = keys
           /\ printed' = print_lines(processed, raw_attendance_data, 1)
           /\ pc' = IF processed = keys THEN "done" ELSE "TypeError"
    /\ UNCHANGED <<student_attendance_data, program_boundaries,
                   monthly_attendance_by_program, available_months, writes,
                   raw_attendance_data, extracted_attendance_data,
                   input_file_path, output_file_path, run_button, audit_threads,
                   list_of_row_numbers, boundary_rows,
                   matching_row_numbers, progress_var, config_vars,
                   table_vars>>

\* GUI: consolidated_data = self.consolidate_attendance_data(raw_attendance_data)
Consolidate ==
    /\ pc = "execute_audit_process"
    /\ IF consolidate_raises(raw_attendance_data)
       THEN /\ extracted_attendance_data' = extracted_attendance_data
            /\ pc' = "TypeError"
       ELSE /\ extracted_attendance_data' =
                   Some(consolidate_attendance_data(raw_attendance_data))
            /\ pc' = "consolidated"
    /\ UNCHANGED <<student_attendance_data, program_boundaries,
                   monthly_attendance_by_program, available_months, writes,
                   raw_attendance_data, all_keys, printed, input_file_path,
                   output_file_path, run_button, audit_threads,
                   list_of_row_numbers, boundary_rows,
                   matching_row_numbers, progress_var, config_vars,
                   table_vars>>

NextConsolidate == STEP9 \/ Consolidate

SpecConsolidate == InitConsolidate /\ [][NextConsolidate]_vars

(***************************************************************************)
(* The GUI: file selection, load and analyze, audit run                    *)
(***************************************************************************)
MaxGuiRows == 1
MaxThreads == 2

\* The sheets a selected input file can hold: row 1 names Program C, the month
\* cell of each row is empty or 1, the attendance of row i is 5 * i.
GuiWorkbooks ==
    UNION {{[i \in 1..n |->
                [c1 |-> IF i = 1 THEN Text("Program C Charter Resident") ELSE Empty,
                 c2 |-> months[i], c4 |-> Text("4-6"), c35 |-> Num(5 * i)]] :
              months \in [1..n -> {Empty, Num(1)}]} :
           n \in 1..MaxGuiRows}

\* The columns of the boundary table.
columns == <<"Program Code", "Program Name", "Start Row", "End Row">>

\* The program codes in the order of str(code).lower(), and in the order of
\* str(name).lower() of their full names.
codes_by_lower_code ==
    <<Prog_C, Prog_C_CM, Prog_C_SYC, Prog_C_TK, Prog_J, Prog_J_TK, Prog_K,
      Prog_K_TK, Prog_N, Prog_N_CM, Prog_N_SYC, Prog_N_TK>>
codes_by_lower_name ==
    <<Prog_C, Prog_C_CM, Prog_C_SYC, Prog_C_TK, Prog_J_TK, Prog_J, Prog_K,
      Prog_K_TK, Prog_N, Prog_N_CM, Prog_N_SYC, Prog_N_TK>>

\* The key apply_sort gives a row: for the two row-number columns the number,
\* or plus infinity (minus infinity when descending) for a missing one; for the
\* two text columns the place of the lower-cased text among the twelve.
sort_key(item, column, reverse) ==
    IF column \in {"Start Row", "End Row"}
    THEN IF item[column] = None
         THEN [inf |-> IF reverse THEN -1 ELSE 1, n |-> 0]
         ELSE [inf |-> 0, n |-> item[column][1]]
    ELSE LET order == IF column = "Program Code" THEN codes_by_lower_code
                      ELSE codes_by_lower_name
         IN  [inf |-> 0,
              n |-> CHOOSE i \in 1..Len(order) : order[i] = item["Program Code"]]

key_less(a, b) == a.inf < b.inf \/ (a.inf = b.inf /\ a.n < b.n)

\* list.sort(key=sort_key, reverse=reverse), which is stable in both
\* directions: item i of data goes behind every item placed so far that does
\* not belong strictly after it.
RECURSIVE list_sort(_, _, _, _, _)
list_sort(data, column, reverse, i, sorted) ==
    IF i > Len(data) THEN sorted
    ELSE LET key == sort_key(data[i], column, reverse)
             after(j) == LET other == sort_key(sorted[j], column, reverse)
                         IN  IF reverse THEN key_less(other, key)
                             ELSE key_less(key, other)
             later == {j \in 1..Len(sorted) : after(j)}
             place == IF later = {} THEN Len(sorted) + 1
                      ELSE CHOOSE j \in later : \A k \in later : j <= k
         IN  list_sort(data, column, reverse, i + 1,
                       SubSeq(sorted, 1, place - 1) \o <<data[i]>>
                           \o SubSeq(sorted, place, Len(sorted)))

\* What apply_sort leaves in self.boundary_data: the list as it is when no
\* column is chosen or the list is empty, the list sorted in place otherwise.
apply_sort(data, column, reverse) ==
    IF column = None \/ data = <<>> THEN data
    ELSE list_sort(data, column[1], reverse, 1, <<>>)

\* What update_boundaries_display leaves in self.boundary_data: one row per
\* program in the iteration order of the boundary mapping, sorted when a sort
\* column is chosen.
update_boundaries_display(boundaries, column, reverse) ==
    apply_sort([i \in 1..Len(short_codes) |->
                    [col \in Range(columns) |->
                        CASE col = "Program Code" -> short_codes[i]
                          [] col = "Program Name" -> program_name_mappings[i][1]
                          [] col = "Start Row" -> boundaries[short_codes[i]].start
                          [] col = "End Row" -> boundaries[short_codes[i]].stop]],
               column, reverse)

\* populate_tree_from_data: the rows the table shows, in the order of data.
populate_tree_from_data(data) ==
    [i \in 1..Len(data) |->
        <<data[i]["Program Code"], data[i]["Program Name"],
          data[i]["Start Row"], data[i]["End Row"]>>]

\* The state update_button_states gives the run button.
update_button_states(input_path, output_path) ==
    IF input_path # "" /\ output_path # "" THEN "normal" ELSE "disabled"

\* After __init__: create_widgets has disabled the run button, then
\* set_default_paths has set the paths it found on disk.
Init ==
    /\ pc = "mainloop"
    /\ input_file_path \in {"", "attendance.xlsx"}
    /\ output_file_path \in {"", "audit.xlsx"}
    /\ run_button = "disabled"
    /\ student_attendance_data = None
    /\ extracted_attendance_data = None
    /\ program_boundaries = empty_boundaries
    /\ audit_threads = EmptyBag
    /\ monthly_attendance_by_program = <<>>
    /\ available_months = <<>>
    /\ writes = <<>>
    /\ raw_attendance_data = NoDict
    /\ all_keys = <<>>
    /\ printed = <<>>
    /\ list_of_row_numbers = <<>>
    /\ boundary_rows = <<>>
    /\ matching_row_numbers = <<>>
    /\ progress_var = 0
    /\ saved_configurations = [name \in ConfigNames |-> None]
    /\ settings_directory = [name \in ConfigNames |-> None]
    /\ boundary_data = <<>>
    /\ sort_column = None
    /\ sort_reverse = FALSE
    /\ boundaries_tree = <<>>

browse_input_file ==
    /\ \E filename \in {"attendance.xlsx"} :
           /\ input_file_path' = filename
           /\ run_button' = update_button_states(filename, output_file_path)
    /\ UNCHANGED <<pc, student_attendance_data, program_boundaries,
                   monthly_attendance_by_program, available_months, writes,
                   raw_attendance_data, extracted_attendance_data, all_keys,
                   printed, output_file_path, audit_threads,
                   list_of_row_numbers, boundary_rows,
                   matching_row_numbers, progress_var, config_vars,
                   table_vars>>

browse_output_file ==
    /\ \E filename \in {"audit.xlsx"} :
           /\ output_file_path' = filename
           /\ run_button' = update_button_states(input_file_path, filename)
    /\ UNCHANGED <<pc, student_attendance_data, program_boundaries,
                   monthly_attendance_by_program, available_months, writes,
                   raw_attendance_data, extracted_attendance_data, all_keys,
                   printed, input_file_path, audit_threads,
                   list_of_row_numbers, boundary_rows,
                   matching_row_numbers, progress_var, config_vars,
                   table_vars>>

\* The sheets the file at a path can hold: in "programs.xlsx" row 1 names
\* Program C or Program N and every later row Program N; any other file holds
\* a sheet of GuiWorkbooks.
MaxProgramRows == 1

ProgramWorkbooks ==
    UNION {{[i \in 1..n |->
                [c1 |-> Text(IF i = 1 THEN first
                             ELSE "Program N Non-Resident Charter"),
                 c2 |-> Empty, c4 |-> Text("4-6"), c35 |-> Num(5)]] :
              first \in {"Program C Charter Resident",
                         "Program N Non-Resident Charter"}} :
           n \in 1..MaxProgramRows}

input_file(filename) ==
    IF filename = "programs.xlsx" THEN ProgramWorkbooks ELSE GuiWorkbooks

\* A write into the inner dicts of self.program_boundaries: every saved
\* configuration that holds the same inner dicts shows the written values.
written_in_place(configurations, boundaries) ==
    [name \in ConfigNames |->
        IF configurations[name] # None /\ configurations[name][1].shares
        THEN Some([program_boundaries |-> boundaries, shares |-> TRUE])
        ELSE configurations[name]]

\* self.program_boundaries becomes a new dict: no saved configuration holds
\* its inner dicts any more.
rebound(configurations) ==
    [name \in ConfigNames |->
        IF configurations[name] = None THEN None
        ELSE Some([configurations[name][1] EXCEPT !.shares = FALSE])]

load_and_analyze_data ==
    /\ input_file_path # ""
    /\ \E workbook \in input_file(input_file_path) :
           LET student_data == read_excel(workbook)
               boundaries == adjust_program_boundaries(
                                 find_program_boundaries(student_data,
                                                         program_boundaries))
           IN  /\ student_attendance_data' = Some(student_data)
               /\ program_boundaries' = boundaries
    /\ saved_configurations' =
           written_in_place(saved_configurations, program_boundaries')
    /\ boundary_data' = update_boundaries_display(program_boundaries',
                                                  sort_column, sort_reverse)
    /\ boundaries_tree' = populate_tree_from_data(boundary_data')
    /\ run_button' = update_button_states(input_file_path, output_file_path)
    /\ progress_var' = 0
    /\ UNCHANGED <<pc, monthly_attendance_by_program, available_months, writes,
                   raw_attendance_data, extracted_attendance_data, all_keys,
                   printed, input_file_path, output_file_path, audit_threads,
                   list_of_row_numbers, boundary_rows,
                   matching_row_numbers, settings_directory, sort_column,
                   sort_reverse>>

\* Called by the run button (when it is enabled) or, whatever the button's
\* state, by Ctrl+R: starts one more worker thread at its Step 1.
run_audit_process ==
    /\ \E caller \in {"run_button", "Control-r"} :
           caller = "run_button" => run_button = "normal"
    /\ input_file_path # "" /\ output_file_path # ""
    /\ student_attendance_data # None
    /\ BagCardinality(audit_threads) < MaxThreads
    /\ run_button' = "disabled"
    /\ audit_threads' = audit_threads (+) SetToBag({[pc |-> "Step 1",
                                 monthly_attendance_by_program |-> <<>>]})
    /\ UNCHANGED <<pc, student_attendance_data, program_boundaries,
                   monthly_attendance_by_program, available_months, writes,
                   raw_attendance_data, extracted_attendance_data, all_keys,
                   printed, input_file_path, output_file_path,
                   list_of_row_numbers, boundary_rows,
                   matching_row_numbers, progress_var, config_vars,
                   table_vars>>

\* The Save button of the boundary edit dialog, opened on a selected row of the
\* table: both ends of the program become what was typed, in place.
save_changes ==
    /\ boundaries_tree # <<>>
    /\ \E program_code \in {Prog_C} :
       \E start_val \in {None, Some(1)} :
       \E end_val \in {None, Some(MaxGuiRows)} :
           program_boundaries' =
               [program_boundaries EXCEPT ![program_code] =
                    [start |-> start_val, stop |-> end_val]]
    /\ saved_configurations' =
           written_in_place(saved_configurations, program_boundaries')
    /\ boundary_data' = update_boundaries_display(program_boundaries',
                                                  sort_column, sort_reverse)
    /\ boundaries_tree' = populate_tree_from_data(boundary_data')
    /\ UNCHANGED <<pc, student_attendance_data, monthly_attendance_by_program,
                   available_months, writes, raw_attendance_data,
                   extracted_attendance_data, all_keys, printed,
                   input_file_path, output_file_path, run_button,
                   audit_threads, list_of_row_numbers, boundary_rows,
                   matching_row_numbers, progress_var, settings_directory,
                   sort_column, sort_reverse>>

\* A worker thread, Step 1: the month scan over range(1, 13) of the sheet that
\* self.student_attendance_data is now, kept in the thread's local dict.
execute_audit_process_Step1 ==
    /\ \E thread \in BagToSet(audit_threads) :
           /\ thread.pc = "Step 1"
           /\ audit_threads' =
                  (audit_threads (-) SetToBag({thread}))
                      (+) SetToBag({[pc |-> "Step 2",
                                     monthly_attendance_by_program |->
                                         scan_months(student_attendance_data[1],
                                                     FALSE, 1)]})
    /\ progress_var' = 30
    /\ UNCHANGED <<pc, student_attendance_data, program_boundaries,
                   monthly_attendance_by_program, available_months, writes,
                   raw_attendance_data, extracted_attendance_data, all_keys,
                   printed, input_file_path, output_file_path, run_button,
                   list_of_row_numbers, boundary_rows,
                   matching_row_numbers, config_vars, table_vars>>

\* student_data.iloc[row - 1, ...] raises IndexError: a scanned row inside a
\* span lies beyond the end of the sheet.
extract_raises(monthly, program_boundary_info, student_data) ==
    \E k \in 1..Len(monthly) : \E j \in 1..Len(monthly[k][2]) :
        /\ monthly[k][2][j] > Len(student_data)
        /\ \E i \in 1..Len(short_codes) :
               row_in_boundary(program_boundary_info[short_codes[i]],
                               monthly[k][2][j])

\* The ways the call of the report writer can end.
write_all_attendance_data_to_excel_efficiently == {"returns", "raises"}

execute_audit_process_tryMutantFillsStop(thread) ==
    LET monthly == thread.monthly_attendance_by_program
        filled == [c \in Codes |->
                      IF /\ program_boundaries[c].start # None
                         /\ program_boundaries[c].stop = None
                      THEN [program_boundaries[c] EXCEPT
                               !.stop = Some(Len(student_attendance_data[1]))]
                      ELSE program_boundaries[c]]
    IN  /\ UNCHANGED student_attendance_data
        /\ program_boundaries' = filled
        /\ \E raw \in {extract_student_attendance_data(
                           monthly, filled, student_attendance_data[1])} :
               /\ writes' = extract_writes(monthly, filled,
                                           student_attendance_data[1])
               /\ raw_attendance_data' = raw
               /\ extracted_attendance_data' =
                      Some(consolidate_attendance_data(raw))

\* The try block of a worker thread from Step 2 on: extraction from the
\* boundaries and the sheet that the attributes are now, consolidation and the
\* store of the consolidated map, which a step that raised before it skips.
\* writes and raw_attendance_data keep the locals of the thread that ended
\* last.
execute_audit_process_try(thread) ==
    LET monthly == thread.monthly_attendance_by_program
    IN  /\ UNCHANGED <<student_attendance_data, program_boundaries>>
        /\ IF extract_raises(monthly, program_boundaries,
                             student_attendance_data[1])
           THEN UNCHANGED <<writes, raw_attendance_data,
                            extracted_attendance_data>>
           ELSE \E raw \in {extract_student_attendance_data(
                                monthly, program_boundaries,
                                student_attendance_data[1])} :
                    /\ writes' = extract_writes(monthly, program_boundaries,
                                                student_attendance_data[1])
                    /\ raw_attendance_data' = raw
                    /\ extracted_attendance_data' =
                           IF consolidate_raises(raw)
                           THEN extracted_attendance_data
                           ELSE Some(consolidate_attendance_data(raw))

\* Extraction or consolidation raises in the try block of the thread.
execute_audit_process_raises(thread) ==
    IF extract_raises(thread.monthly_attendance_by_program,
                      program_boundaries, student_attendance_data[1])
    THEN TRUE
    ELSE consolidate_raises(extract_student_attendance_data(
                                thread.monthly_attendance_by_program,
                                program_boundaries,
                                student_attendance_data[1]))

execute_audit_process_finallyMutantKeepsButton(thread) ==
    /\ audit_threads' = audit_threads (-) SetToBag({thread})
    /\ run_button' = run_button
    /\ progress_var' = 0
    /\ monthly_attendance_by_program' = thread.monthly_attendance_by_program
    /\ UNCHANGED <<pc, available_months, all_keys, printed, input_file_path,
                   output_file_path, list_of_row_numbers, boundary_rows,
                   matching_row_numbers, config_vars, table_vars>>

\* The end of a worker thread: monthly_attendance_by_program keeps the local
\* of the thread that ended last; the finally block gives the run button the
\* state of update_button_states and puts the progress bar at 0.
execute_audit_process_finally(thread) ==
    /\ audit_threads' = audit_threads (-) SetToBag({thread})
    /\ run_button' = update_button_states(input_file_path, output_file_path)
    /\ progress_var' = 0
    /\ monthly_attendance_by_program' = thread.monthly_attendance_by_program
    /\ UNCHANGED <<pc, available_months, all_keys, printed, input_file_path,
                   output_file_path, list_of_row_numbers, boundary_rows,
                   matching_row_numbers, config_vars, table_vars>>

\* A worker thread from Step 2 to its end, whether the run succeeds or a step
\* raises: the try block as far as it gets, then the finally block.
execute_audit_process_Step2 ==
    \E thread \in BagToSet(audit_threads) :
        /\ thread.pc = "Step 2"
        /\ execute_audit_process_finally(thread)
        /\ execute_audit_process_try(thread)

\* The steps of execute_audit_process_Step2 that are failed runs: extraction
\* or consolidation raised, or the writer does; the except block only reports
\* the error.
execute_audit_process_except ==
    \E thread \in BagToSet(audit_threads) :
        /\ thread.pc = "Step 2"
        /\ \/ "raises" \in write_all_attendance_data_to_excel_efficiently
           \/ execute_audit_process_raises(thread)
        /\ execute_audit_process_finally(thread)
        /\ execute_audit_process_try(thread)

Next ==
    \/ browse_input_file
    \/ browse_output_file
    \/ load_and_analyze_data
    \/ save_changes
    \/ run_audit_process
    \/ execute_audit_process_Step1
    \/ execute_audit_process_Step2

Spec == Init /\ [][Next]_vars

(***************************************************************************)
(* The boundary table of the GUI and its sorting (SpecSort)                *)
(***************************************************************************)
\* A click on a column heading (or F2 to F5): the same column again turns the
\* direction round, another column sorts ascending; apply_sort sorts
\* self.boundary_data in place and shows it.  The headings mark the column
\* that sort_column names.
sort_table ==
    /\ \E column \in Range(columns) :
           /\ sort_reverse' = IF sort_column = Some(column) THEN ~sort_reverse
                              ELSE FALSE
           /\ sort_column' = Some(column)
    /\ boundary_data' = apply_sort(boundary_data, sort_column', sort_reverse')
    /\ boundaries_tree' = IF boundary_data = <<>> THEN boundaries_tree
                          ELSE populate_tree_from_data(boundary_data')
    /\ UNCHANGED <<pc, student_attendance_data, program_boundaries,
                   monthly_attendance_by_program, available_months, writes,
                   raw_attendance_data, extracted_attendance_data, all_keys,
                   printed, input_file_path, output_file_path, run_button,
                   audit_threads, list_of_row_numbers, boundary_rows,
                   matching_row_numbers, progress_var, config_vars>>

\* The Reset Sort button: no sort column, ascending, and the table filled
\* again from self.boundary_data as it is.
reset_sort ==
    /\ sort_column' = None
    /\ sort_reverse' = FALSE
    /\ boundaries_tree' = populate_tree_from_data(boundary_data)
    /\ UNCHANGED <<pc, student_attendance_data, program_boundaries,
                   monthly_attendance_by_program, available_months, writes,
                   raw_attendance_data, extracted_attendance_data, all_keys,
                   printed, input_file_path, output_file_path, run_button,
                   audit_threads, list_of_row_numbers, boundary_rows,
                   matching_row_numbers, progress_var, config_vars,
                   boundary_data>>

\* After __init__, the input path naming "programs.xlsx".
InitSort ==
    /\ pc = "mainloop"
    /\ input_file_path = "programs.xlsx"
    /\ output_file_path = ""
    /\ run_button = "disabled"
    /\ student_attendance_data = None
    /\ extracted_attendance_data = None
    /\ program_boundaries = empty_boundaries
    /\ audit_threads = EmptyBag
    /\ monthly_attendance_by_program = <<>>
    /\ available_months = <<>>
    /\ writes = <<>>
    /\ raw_attendance_data = NoDict
    /\ all_keys = <<>>
    /\ printed = <<>>
    /\ list_of_row_numbers = <<>>
    /\ boundary_rows = <<>>
    /\ matching_row_numbers = <<>>
    /\ progress_var = 0
    /\ saved_configurations = [name \in ConfigNames |-> None]
    /\ settings_directory = [name \in ConfigNames |-> None]
    /\ boundary_data = <<>>
    /\ sort_column = None
    /\ sort_reverse = FALSE
    /\ boundaries_tree = <<>>

NextSort ==
    \/ load_and_analyze_data
    \/ save_changes
    \/ sort_table
    \/ reset_sort

SpecSort == InitSort /\ [][NextSort]_vars

(***************************************************************************)
(* Saved, loaded and imported boundary configurations (SpecConfig)         *)
(***************************************************************************)
\* The Save button of the Save Configuration dialog, which opens only when
\* some boundary is set: the configuration holds a shallow copy of
\* self.program_boundaries, "<name>.json" holds its values of now.
save_config ==
    /\ \E i \in 1..Len(short_codes) :
           \/ program_boundaries[short_codes[i]].start # None
           \/ program_boundaries[short_codes[i]].stop # None
    /\ \E config_name \in ConfigNames :
           /\ settings_directory' =
                  [settings_directory EXCEPT ![config_name] =
                       Some(program_boundaries)]
           /\ saved_configurations' =
                  [saved_configurations EXCEPT ![config_name] =
                       Some([program_boundaries |-> program_boundaries,
                             shares |-> TRUE])]
    /\ UNCHANGED <<pc, student_attendance_data, program_boundaries,
                   monthly_attendance_by_program, available_months, writes,
                   raw_attendance_data, extracted_attendance_data, all_keys,
                   printed, input_file_path, output_file_path, run_button,
                   audit_threads, list_of_row_numbers, boundary_rows,
                   matching_row_numbers, progress_var, table_vars>>

\* The Load button of the Load Configuration dialog on a selected
\* configuration: self.program_boundaries becomes a deep copy of what
\* self.saved_configurations holds under the name.
load_selected ==
    /\ \E config_name \in ConfigNames :
           /\ saved_configurations[config_name] # None
           /\ program_boundaries' =
                  saved_configurations[config_name][1].program_boundaries
    /\ saved_configurations' = rebound(saved_configurations)
    /\ boundary_data' = update_boundaries_display(program_boundaries',
                                                  sort_column, sort_reverse)
    /\ boundaries_tree' = populate_tree_from_data(boundary_data')
    /\ run_button' = update_button_states(input_file_path, output_file_path)
    /\ UNCHANGED <<pc, student_attendance_data, monthly_attendance_by_program,
                   available_months, writes, raw_attendance_data,
                   extracted_attendance_data, all_keys, printed,
                   input_file_path, output_file_path, audit_threads,
                   list_of_row_numbers, boundary_rows, matching_row_numbers,
                   progress_var, settings_directory, sort_column,
                   sort_reverse>>

\* The boundaries in the files that export_boundary_settings wrote and the
\* user can pick for an import: the twelve programs, ends typed for Prog_C or
\* a lone start for Prog_N.
ExportedSettings ==
    {[empty_boundaries EXCEPT
         ![Prog_C] = [start |-> Some(1), stop |-> Some(MaxProgramRows)]],
     [empty_boundaries EXCEPT ![Prog_N] = [start |-> Some(1), stop |-> None]]}

\* Import Settings, the user confirming: self.program_boundaries becomes the
\* dict read from the file.
import_boundary_settings ==
    /\ \E import_data \in ExportedSettings :
           program_boundaries' = import_data
    /\ saved_configurations' = rebound(saved_configurations)
    /\ boundary_data' = update_boundaries_display(program_boundaries',
                                                  sort_column, sort_reverse)
    /\ boundaries_tree' = populate_tree_from_data(boundary_data')
    /\ UNCHANGED <<pc, student_attendance_data, monthly_attendance_by_program,
                   available_months, writes, raw_attendance_data,
                   extracted_attendance_data, all_keys, printed,
                   input_file_path, output_file_path, run_button,
                   audit_threads, list_of_row_numbers, boundary_rows,
                   matching_row_numbers, progress_var, settings_directory,
                   sort_column, sort_reverse>>

NextConfig ==
    \/ load_and_analyze_data
    \/ save_changes
    \/ save_config
    \/ load_selected
    \/ import_boundary_settings

SpecConfig == InitSort /\ [][NextConfig]_vars

(***************************************************************************)
(* Audit runs started after Load & Analyze, the threads scheduled fairly   *)
(* (SpecLive)                                                              *)
(***************************************************************************)
\* The user types in the output path entry, or clears it: the StringVar
\* changes, no button state is updated.
output_entry ==
    /\ \E text \in {"", "audit.xlsx"} :
           /\ text # output_file_path
           /\ output_file_path' = text
    /\ UNCHANGED <<pc, student_attendance_data, program_boundaries,
                   monthly_attendance_by_program, available_months, writes,
                   raw_attendance_data, extracted_attendance_data, all_keys,
                   printed, input_file_path, run_button, audit_threads,
                   list_of_row_numbers, boundary_rows,
                   matching_row_numbers, progress_var, config_vars,
                   table_vars>>

\* Two sheets of one row that names Program C: its month cell is empty, so
\* that no month is found, or 1.
LiveWorkbooks ==
    {<<[c1 |-> Text("Program C Charter Resident"), c2 |-> month,
        c4 |-> Text("4-6"), c35 |-> Num(5)]>> : month \in {Empty, Num(1)}}

\* After both files were chosen and Load & Analyze has read a sheet of
\* LiveWorkbooks: the boundaries are resolved and shown, the run button is
\* enabled, no run was started yet.
InitLive ==
    /\ pc = "mainloop"
    /\ input_file_path = "attendance.xlsx"
    /\ output_file_path = "audit.xlsx"
    /\ run_button = update_button_states(input_file_path, output_file_path)
    /\ \E workbook \in LiveWorkbooks :
           student_attendance_data = Some(read_excel(workbook))
    /\ program_boundaries =
           adjust_program_boundaries(
               find_program_boundaries(student_attendance_data[1],
                                       empty_boundaries))
    /\ audit_threads = EmptyBag
    /\ extracted_attendance_data = None
    /\ monthly_attendance_by_program = <<>>
    /\ available_months = <<>>
    /\ writes = <<>>
    /\ raw_attendance_data = NoDict
    /\ all_keys = <<>>
    /\ printed = <<>>
    /\ list_of_row_numbers = <<>>
    /\ boundary_rows = <<>>
    /\ matching_row_numbers = <<>>
    /\ progress_var = 0
    /\ saved_configurations = [name \in ConfigNames |-> None]
    /\ settings_directory = [name \in ConfigNames |-> None]
    /\ sort_column = None
    /\ sort_reverse = FALSE
    /\ boundary_data = update_boundaries_display(program_boundaries,
                                                 sort_column, sort_reverse)
    /\ boundaries_tree = populate_tree_from_data(boundary_data)

NextLive ==
    \/ browse_output_file
    \/ output_entry
    \/ run_audit_process
    \/ execute_audit_process_Step1
    \/ execute_audit_process_Step2

\* A worker thread is at Step 2; its step to the end removes it from
\* audit_threads, so the step is enabled exactly in these states.
execute_audit_process_Step2_enabled ==
    \E thread \in BagToSet(audit_threads) : thread.pc = "Step 2"

\* A started worker thread is scheduled until it ends: neither of its two
\* steps waits for anything.  The weak fairness of the second step,
\* WF_vars(execute_audit_process_Step2), is written with the states that
\* enable the step spelled out.
SpecLive ==
    /\ InitLive
    /\ [][NextLive]_vars
    /\ WF_vars(execute_audit_process_Step1)
    /\ \/ []<>(~execute_audit_process_Step2_enabled)
       \/ []<><<execute_audit_process_Step2>>_vars

(***************************************************************************)
(* One GUI audit run, alone, on any sheet and any boundaries of Prog_C     *)
(***************************************************************************)
MaxAuditRows == 2

\* Sheets whose month cells are empty, 1 or the text "2"; the attendance of
\* row i is 5 * i.
AuditWorkbooks ==
    UNION {{[i \in 1..n |->
                [c1 |-> Empty, c2 |-> months[i], c4 |-> Text("4-6"),
                 c35 |-> Num(5 * i)]] :
              months \in [1..n -> {Empty, Num(1), Text("2")}]} :
           n \in 1..MaxAuditRows}

\* After run_audit_process has started the worker: the sheet is loaded, the
\* ends of Prog_C are what the edit dialog or a configuration left.
InitAudit ==
    /\ pc = "mainloop"
    /\ input_file_path = "attendance.xlsx"
    /\ output_file_path = "audit.xlsx"
    /\ run_button = "disabled"
    /\ \E workbook \in AuditWorkbooks :
           student_attendance_data = Some(read_excel(workbook))
    /\ \E b \in TypedBoundaries(MaxAuditRows) :
           program_boundaries = [empty_boundaries EXCEPT ![Prog_C] = b]
    /\ audit_threads = SetToBag({[pc |-> "Step 1",
                                  monthly_attendance_by_program |-> <<>>]})
    /\ extracted_attendance_data = None
    /\ monthly_attendance_by_program = <<>>
    /\ available_months = <<>>
    /\ writes = <<>>
    /\ raw_attendance_data = NoDict
    /\ all_keys = <<>>
    /\ printed = <<>>
    /\ list_of_row_numbers = <<>>
    /\ boundary_rows = <<>>
    /\ matching_row_numbers = <<>>
    /\ progress_var = 0
    /\ saved_configurations = [name \in ConfigNames |-> None]
    /\ settings_directory = [name \in ConfigNames |-> None]
    /\ boundary_data = <<>>
    /\ sort_column = None
    /\ sort_reverse = FALSE
    /\ boundaries_tree = <<>>

NextAudit == execute_audit_process_Step1 \/ execute_audit_process_Step2

SpecAudit == InitAudit /\ [][NextAudit]_vars

(***************************************************************************)
(* Console script, STEP 4 to STEP 9, the user accepting every boundary     *)
(***************************************************************************)
MaxScriptRows == 2

\* Sheets whose every row names Program C, Program N or nothing, holds month
\* 1, 2 or 13 or nothing, the age band 4-6, and as attendance 5 times its row
\* number or the text "absent".
ScriptWorkbooks ==
    UNION {{[i \in 1..n |->
                [c1 |-> names[i], c2 |-> months[i], c4 |-> Text("4-6"),
                 c35 |-> IF texts[i] THEN Text("absent") ELSE Num(5 * i)]] :
              names \in [1..n -> {Text("Program C Charter Resident"),
                                  Text("Program N Non-Resident Charter"), Empty}],
              months \in [1..n -> {Empty, Num(1), Num(2), Num(13)}],
              texts \in [1..n -> BOOLEAN]} :
           n \in 1..MaxScriptRows}

InitScript ==
    /\ pc = "STEP4"
    /\ \E workbook \in ScriptWorkbooks :
           student_attendance_data = Some(read_excel(workbook))
    /\ program_boundaries = empty_boundaries
    /\ monthly_attendance_by_program = <<>>
    /\ available_months = <<>>
    /\ writes = <<>>
    /\ raw_attendance_data = NoDict
    /\ extracted_attendance_data = None
    /\ all_keys = <<>>
    /\ printed = <<>>
    /\ input_file_path = ""
    /\ output_file_path = ""
    /\ run_button = "disabled"
    /\ audit_threads = EmptyBag
    /\ list_of_row_numbers = <<>>
    /\ boundary_rows = <<>>
    /\ matching_row_numbers = <<>>
    /\ progress_var = 0
    /\ saved_configurations = [name \in ConfigNames |-> None]
    /\ settings_directory = [name \in ConfigNames |-> None]
    /\ boundary_data = <<>>
    /\ sort_column = None
    /\ sort_reverse = FALSE
    /\ boundaries_tree = <<>>

\* The user answers "yes" to every "Are the boundaries for ... correct?".
STEP6 ==
    /\ pc = "STEP6"
    /\ pc' = "STEP7"
    /\ UNCHANGED <<student_attendance_data, program_boundaries,
                   monthly_attendance_by_program, available_months, writes,
                   raw_attendance_data, extracted_attendance_data, all_keys,
                   printed, input_file_path, output_file_path, run_button,
                   audit_threads, list_of_row_numbers, boundary_rows,
                   matching_row_numbers, progress_var, config_vars,
                   table_vars>>

NextScript == STEP4 \/ STEP5 \/ STEP6 \/ STEP7 \/ STEP8 \/ STEP9

SpecScript == InitScript /\ [][NextScript]_vars

(***************************************************************************)
(* The two scans on any sheet                                              *)
(***************************************************************************)
MaxScanRows == 2

\* Sheets whose program-name cells hold a program name, a longer name that
\* starts with it, or nothing, and whose month cells hold nothing, a whole
\* number, a number with a fraction, a numeral as text or another text.
ScanWorkbooks ==
    Workbooks(MaxScanRows,
              {Text("Program C Charter Resident"),
               Text("Program C Charter Resident -  Transitional Kindergarten(TK)"),
               Empty},
              {Empty, Num(1), Num(12), Frac(1, 5), Text("1"), Text("abc")},
              {Empty}, {Empty})

InitScan ==
    /\ pc = "scan"
    /\ \E workbook \in ScanWorkbooks :
           student_attendance_data = Some(read_excel(workbook))
    /\ program_boundaries = empty_boundaries
    /\ monthly_attendance_by_program = <<>>
    /\ available_months = <<>>
    /\ writes = <<>>
    /\ raw_attendance_data = NoDict
    /\ extracted_attendance_data = None
    /\ all_keys = <<>>
    /\ printed = <<>>
    /\ input_file_path = ""
    /\ output_file_path = ""
    /\ run_button = "disabled"
    /\ audit_threads = EmptyBag
    /\ list_of_row_numbers = <<>>
    /\ boundary_rows = <<>>
    /\ matching_row_numbers = <<>>
    /\ progress_var = 0
    /\ saved_configurations = [name \in ConfigNames |-> None]
    /\ settings_directory = [name \in ConfigNames |-> None]
    /\ boundary_data = <<>>
    /\ sort_column = None
    /\ sort_reverse = FALSE
    /\ boundaries_tree = <<>>

\* The program scan called for every full name, or the month scan called for
\* every month of range(1, 13).
Scan ==
    /\ pc = "scan"
    /\ \E scan \in {"program", "month"} :
           matching_row_numbers' =
               IF scan = "program"
               THEN [scan |-> scan,
                     rows |-> [name \in FullNames |->
                                  find_rows_containing_program_name(
                                      student_attendance_data[1], name)]]
               ELSE [scan |-> scan,
                     rows |-> [month_number \in 1..LastMonth |->
                                  find_rows_containing_month_number(
                                      student_attendance_data[1], month_number)]]
    /\ pc' = "scanned"
    /\ UNCHANGED <<student_attendance_data, program_boundaries,
                   monthly_attendance_by_program, available_months, writes,
                   raw_attendance_data, extracted_attendance_data, all_keys,
                   printed, input_file_path, output_file_path, run_button,
                   audit_threads, list_of_row_numbers, boundary_rows,
                   progress_var, config_vars, table_vars>>

NextScan == Scan

SpecScan == InitScan /\ [][NextScan]_vars

(***************************************************************************)
(* Properties of find_program_boundary_rows (SpecResolve)                  *)
(***************************************************************************)
\* C10: find_program_boundary_rows returns (min, max) of any non-empty list of
\* row numbers, whatever its order and whether or not the rows are contiguous,
\* and (None, None) for the empty list.
C10_MinMax ==
    pc = "returned" =>
        LET rows == {list_of_row_numbers[i] : i \in 1..Len(list_of_row_numbers)}
        IN  /\ rows = {} => boundary_rows = <<None, None>>
            /\ rows # {} =>
                /\ Len(boundary_rows) = 2
                /\ boundary_rows[1] # None
                /\ boundary_rows[2] # None
                /\ boundary_rows[1][1] \in rows
                /\ boundary_rows[2][1] \in rows
                /\ \A r \in rows : boundary_rows[1][1] <= r /\ r <= boundary_rows[2][1]

\* An unsorted list with a gap: <<4, 1, 2>> gives (1, 4).
C10_Witness ==
    /\ pc = "returned"
    /\ list_of_row_numbers = <<4, 1, 2>>
    /\ boundary_rows = <<Some(1), Some(4)>>

(***************************************************************************)
(* Properties of the boundaries after STEP 5 (SpecBoundary)                *)
(***************************************************************************)
\* The boundaries independent resolution gives the loaded sheet.
resolved == find_program_boundaries(student_attendance_data[1], empty_boundaries)

present(x) == x # None

\* The stop rule (target, reference) leaves: reference.start - 1 when every
\* start in `needs` is present, the resolved stop otherwise.
expected_stop(target, reference, needs) ==
    IF \A c \in needs : present(resolved[c].start)
    THEN Some(resolved[reference].start[1] - 1)
    ELSE resolved[target].stop

\* C4: after the repair pass the stops are those of the four rules applied in
\* order to the resolved boundaries: Prog_C ends before Prog_C_TK when Prog_C_TK
\* and Prog_N were found, Prog_C_TK before Prog_N when Prog_N was found, Prog_N
\* before Prog_N_TK when Prog_N_TK was found, Prog_N_TK before Prog_J and Prog_J
\* before Prog_K when both of the pair were found; every other stop is as resolved.
C4_RepairedStops ==
    pc = "STEP6" =>
        /\ program_boundaries[Prog_C].stop =
               expected_stop(Prog_C, Prog_C_TK, {Prog_C_TK, Prog_N})
        /\ program_boundaries[Prog_C_TK].stop =
               expected_stop(Prog_C_TK, Prog_N, {Prog_N})
        /\ program_boundaries[Prog_N].stop =
               expected_stop(Prog_N, Prog_N_TK, {Prog_N_TK})
        /\ program_boundaries[Prog_N_TK].stop =
               expected_stop(Prog_N_TK, Prog_J, {Prog_N_TK, Prog_J})
        /\ program_boundaries[Prog_J].stop =
               expected_stop(Prog_J, Prog_K, {Prog_J, Prog_K})
        /\ \A c \in Codes \ {Prog_C, Prog_C_TK, Prog_N, Prog_N_TK, Prog_J} :
               program_boundaries[c].stop = resolved[c].stop

\* Prog_C, Prog_C_TK and Prog_N found in that order: rules 1 and 2 both apply
\* (Prog_C_TK.start = 2 and Prog_N.start = 3 give Prog_C.stop = 1, Prog_C_TK.stop = 2).
C4_Witness ==
    /\ pc = "STEP6"
    /\ resolved[Prog_C].start = Some(1)
    /\ resolved[Prog_C_TK].start = Some(2)
    /\ resolved[Prog_N].start = Some(3)
    /\ program_boundaries[Prog_C].stop = Some(1)
    /\ program_boundaries[Prog_C_TK].stop = Some(2)

\* C5: after resolution and repair every boundary with both ends present has
\* start <= stop.
C5_StartLeStop ==
    pc = "STEP6" =>
        \A c \in Codes :
            (present(program_boundaries[c].start) /\ present(program_boundaries[c].stop))
                => program_boundaries[c].start[1] <= program_boundaries[c].stop[1]

\* The rows of a boundary's span; a span with an absent end holds no row.
span(b) ==
    IF present(b.start) /\ present(b.stop)
    THEN {r \in 1..Len(student_attendance_data[1]) : b.start[1] <= r /\ r <= b.stop[1]}
    ELSE {}

repaired_pairs ==
    {<<Prog_C, Prog_C_TK>>, <<Prog_C_TK, Prog_N>>, <<Prog_N, Prog_N_TK>>,
     <<Prog_N_TK, Prog_J>>, <<Prog_J, Prog_K>>}

\* C6: after the repair pass the spans of each adjacent pair it handles share
\* no row whenever both programs of the pair were found in the sheet.
C6_NoOverlap ==
    pc = "STEP6" =>
        \A p \in repaired_pairs :
            (present(resolved[p[1]].start) /\ present(resolved[p[2]].start))
                => span(program_boundaries[p[1]]) \cap span(program_boundaries[p[2]]) = {}

\* C7: the repair pass is idempotent: a second pass over its own result
\* changes no start and no stop, for the boundary set at hand (empty, resolved
\* or repaired) and for the resolved set with the ends of any one program the
\* sheets name replaced by any typed values.
C7_Idempotent ==
    /\ adjust_program_boundaries(adjust_program_boundaries(program_boundaries))
           = adjust_program_boundaries(program_boundaries)
    /\ pc = "STEP5" =>
           \A c \in BoundaryCodes : \A typed \in TypedBoundaries(MaxBoundaryRows) :
               LET b == [program_boundaries EXCEPT ![c] = typed]
               IN  adjust_program_boundaries(adjust_program_boundaries(b))
                       = adjust_program_boundaries(b)

\* A resolved boundary set that the first pass does change.
C7_Witness ==
    /\ pc = "STEP5"
    /\ adjust_program_boundaries(program_boundaries) # program_boundaries
    /\ present(program_boundaries[Prog_N_TK].start)
    /\ present(program_boundaries[Prog_J].start)
    /\ present(program_boundaries[Prog_K].start)

(***************************************************************************)
(* Properties of extraction (SpecExtract)                                  *)
(***************************************************************************)
sheet == student_attendance_data[1]

\* Row r lies in the complete span of program c, both ends included.
contains(c, r) ==
    /\ present(program_boundaries[c].start)
    /\ present(program_boundaries[c].stop)
    /\ program_boundaries[c].start[1] <= r
    /\ r <= program_boundaries[c].stop[1]

\* The positions <<k, j>> of the month row index: row j of the k-th month.
month_positions ==
    {kj \in (1..Len(monthly_attendance_by_program)) \X (1..Len(sheet)) :
        kj[2] <= Len(monthly_attendance_by_program[kj[1]][2])}
row_at(kj) == monthly_attendance_by_program[kj[1]][2][kj[2]]

\* The key row r gives program c: "{c}_Month_{month cell}_{age-band cell}: ".
key_of(c, r) == field_name(c, format(sheet[r].c2), format(sheet[r].c4))

\* C2: a month row inside the spans of several programs is attributed to one
\* program only, the first containing program in mapping order: every
\* assignment extraction makes for a row is for that program.
C2_FirstMatchOnly ==
    pc = "STEP9" =>
        \A n \in 1..Len(writes) :
            \A i \in 1..Len(short_codes) :
                (short_codes[i] = writes[n].program) =>
                    \A h \in 1..(i - 1) : ~contains(short_codes[h], writes[n].row)

\* C8: for every row r of a month's row list and every program P whose complete
\* span contains r (both ends included), extraction assigns the value of r's
\* attendance cell to the key "P_Month_{month cell of r}_{age-band cell of r}: ".
C8_RowWritten ==
    pc = "STEP9" =>
        \A kj \in month_positions : \A c \in Codes :
            contains(c, row_at(kj)) =>
                /\ \E n \in 1..Len(writes) :
                       writes[n] = [key |-> key_of(c, row_at(kj)),
                                    value |-> sheet[row_at(kj)].c35,
                                    row |-> row_at(kj),
                                    program |-> c]
                /\ key_of(c, row_at(kj)) \in DOMAIN raw_attendance_data

\* Row 2, the last row of Prog_C = [1, 2], with month cell 1, age band 7-8 and
\* attendance 10, yields "Prog_C_Month_1_7-8: " = 10.
C8_Witness ==
    /\ pc = "STEP9"
    /\ program_boundaries[Prog_C] = [start |-> Some(1), stop |-> Some(2)]
    /\ Len(sheet) = 2
    /\ sheet[2].c2 = IntCell(1)
    /\ sheet[2].c4 = StrCell("7-8")
    /\ sheet[2].c35 = IntCell(10)
    /\ <<"Prog", "_", "C", "_", "Month", "_", "1", "_", "7-8", ": ">>
           \in DOMAIN raw_attendance_data
    /\ raw_attendance_data[<<"Prog", "_", "C", "_", "Month", "_", "1", "_", "7-8", ": ">>]
           = IntCell(10)

\* The <<k, j, i>> at which extraction produces `key`: row j of month k lies in
\* the span of the i-th program and gives it that key.
producers(key) ==
    {p \in (1..Len(monthly_attendance_by_program)) \X (1..Len(sheet))
                \X (1..Len(short_codes)) :
        /\ <<p[1], p[2]>> \in month_positions
        /\ contains(short_codes[p[3]], row_at(<<p[1], p[2]>>))
        /\ key_of(short_codes[p[3]], row_at(<<p[1], p[2]>>)) = key}

\* p is processed before q: months in index order, rows in list order,
\* programs in mapping order.
before(p, q) ==
    \/ p[1] < q[1]
    \/ p[1] = q[1] /\ p[2] < q[2]
    \/ p[1] = q[1] /\ p[2] = q[2] /\ p[3] < q[3]

all_produced_keys ==
    {key_of(c, row_at(kj)) : c \in {c \in Codes : \E r \in 1..Len(sheet) : contains(c, r)},
                             kj \in month_positions}

\* C9: the raw map holds, for every key some row produces, the attendance of
\* the row processed last among those producing it (never a sum), and holds no
\* other key.
C9_LastWriteWins ==
    pc = "STEP9" =>
        /\ DOMAIN raw_attendance_data = {key \in all_produced_keys : producers(key) # {}}
        /\ \A key \in DOMAIN raw_attendance_data :
               \E p \in producers(key) :
                   /\ \A q \in producers(key) : q = p \/ before(q, p)
                   /\ raw_attendance_data[key] = sheet[row_at(<<p[1], p[2]>>)].c35

\* Rows 1 and 2 both give Prog_C the key "Prog_C_Month_1_4-6: " (attendance 5
\* and 10); the map holds 10.
C9_Witness ==
    /\ pc = "STEP9"
    /\ Len(sheet) = 2
    /\ contains(Prog_C, 1)
    /\ contains(Prog_C, 2)
    /\ key_of(Prog_C, 1) = <<"Prog", "_", "C", "_", "Month", "_", "1", "_", "4-6", ": ">>
    /\ key_of(Prog_C, 2) = key_of(Prog_C, 1)
    /\ sheet[1].c35 = IntCell(5)
    /\ sheet[2].c35 = IntCell(10)
    /\ raw_attendance_data[key_of(Prog_C, 1)] = IntCell(10)

(***************************************************************************)
(* Properties of consolidation (SpecConsolidate)                           *)
(***************************************************************************)
\* What the raw map contributes for one child: its value for the child's key,
\* in tenths; 0 when the key is missing or its value is NaN.
contribution(child, month_text, age_group) ==
    LET key == child \o <<"_", "Month", "_", month_text, "_", age_group, ": ">>
    IN  IF key \notin DOMAIN raw_attendance_data THEN 0
        ELSE IF raw_attendance_data[key].t = "nan" THEN 0
        ELSE tenths(raw_attendance_data[key])

RECURSIVE sum_over(_, _, _)
sum_over(S, month_text, age_group) ==
    IF S = {} THEN 0
    ELSE LET i == CHOOSE i \in S : TRUE
         IN  contribution(i[2], month_text, age_group)
                 + sum_over(S \ {i}, month_text, age_group)

\* The sum of the contributions of the children of rule r.
expected_total(r, month_text, age_group) ==
    sum_over({<<i, program_consolidation_rules[r][2][i]>> :
                 i \in 1..Len(program_consolidation_rules[r][2])},
             month_text, age_group)

parent_key(r, month_text, age_group) ==
    program_consolidation_rules[r][1]
        \o <<"_", "Month", "_", month_text, "_", age_group, ": ">>

\* C1: every consolidated value is the sum over the rule's children of the raw
\* map's value for the child's key of that month and age band, a missing key,
\* NaN or zero contributing 0: in the GUI's consolidated map for every rule,
\* month 1..12 and age band, and in the console's printed totals (those
\* above zero) for every rule, available month and age band.
C1_SumOfChildren ==
    /\ extracted_attendance_data # None =>
           \A r \in 1..Len(program_consolidation_rules) :
               \A m \in 1..LastMonth : \A a \in 1..Len(age_groups) :
                   /\ parent_key(r, ToString(m), age_groups[a])
                          \in DOMAIN extracted_attendance_data[1]
                   /\ extracted_attendance_data[1][parent_key(r, ToString(m), age_groups[a])]
                          = expected_total(r, ToString(m), age_groups[a])
    /\ pc = "done" =>
           /\ \A r \in 1..Len(program_consolidation_rules) :
                  \A k \in 1..Len(available_months) : \A a \in 1..Len(age_groups) :
                      LET m == ToString(available_months[k])
                      IN  expected_total(r, m, age_groups[a]) > 0 =>
                              \E n \in 1..Len(printed) :
                                  printed[n] = <<parent_key(r, m, age_groups[a]),
                                                 expected_total(r, m, age_groups[a])>>
           /\ \A n \in 1..Len(printed) :
                  \E r \in 1..Len(program_consolidation_rules) :
                      \E k \in 1..Len(available_months) : \E a \in 1..Len(age_groups) :
                          printed[n] = <<parent_key(r, ToString(available_months[k]),
                                                    age_groups[a]),
                                         expected_total(r, ToString(available_months[k]),
                                                        age_groups[a])>>

\* Prog_C = 1, Prog_C_CM = NaN, Prog_C_SYC = 1.5 for month 3, age band 4-6: the
\* GUI's consolidated Prog_C value is 2.5.
C1_Witness ==
    /\ extracted_attendance_data # None
    /\ DOMAIN raw_attendance_data =
           {<<"Prog", "_", "C", "_", "Month", "_", "3", "_", "4-6", ": ">>,
            <<"Prog", "_", "C", "_", "CM", "_", "Month", "_", "3", "_", "4-6", ": ">>,
            <<"Prog", "_", "C", "_", "SYC", "_", "Month", "_", "3", "_", "4-6", ": ">>}
    /\ raw_attendance_data[<<"Prog", "_", "C", "_", "Month", "_", "3", "_", "4-6", ": ">>]
           = IntCell(1)
    /\ raw_attendance_data[<<"Prog", "_", "C", "_", "CM", "_", "Month", "_", "3", "_", "4-6", ": ">>]
           = NaN
    /\ raw_attendance_data[<<"Prog", "_", "C", "_", "SYC", "_", "Month", "_", "3", "_", "4-6", ": ">>]
           = FloatCell(1, 5)
    /\ extracted_attendance_data[1][<<"Prog", "_", "C", "_", "Month", "_", "3", "_", "4-6", ": ">>]
           = 25

(***************************************************************************)
(* Properties of the GUI audit run (Spec)                                  *)
(***************************************************************************)
\* C3: after a GUI audit run the consolidated map has no key for a month whose
\* row list in the month scan is empty: for such a month no
\* "{parent}_Month_{month}_{age band}: " is a key of the map.
C3_OnlyObservedMonths ==
    extracted_attendance_data # None =>
        \A k \in 1..Len(monthly_attendance_by_program) :
            monthly_attendance_by_program[k][2] = <<>> =>
                \A r \in 1..Len(program_consolidation_rules) :
                    \A a \in 1..Len(age_groups) :
                        parent_key(r, ToString(monthly_attendance_by_program[k][1]),
                                   age_groups[a])
                            \notin DOMAIN extracted_attendance_data[1]

\* The children of rule r with a key in the raw map for that month and age band.
children_with_data(r, month_text, age_group) ==
    {i \in 1..Len(program_consolidation_rules[r][2]) :
        program_consolidation_rules[r][2][i]
            \o <<"_", "Month", "_", month_text, "_", age_group, ": ">>
                \in DOMAIN raw_attendance_data}

\* C11: the GUI's consolidated map has an entry for every parent program, every
\* month 1..12 and every age band, and the entry is 0 when no child of the
\* parent has a key in the raw map for that month and age band.
C11_ZeroNeverAbsent ==
    extracted_attendance_data # None =>
        /\ \A r \in 1..Len(program_consolidation_rules) :
               \A m \in 1..LastMonth : \A a \in 1..Len(age_groups) :
                   /\ parent_key(r, ToString(m), age_groups[a])
                          \in DOMAIN extracted_attendance_data[1]
                   /\ children_with_data(r, ToString(m), age_groups[a]) = {} =>
                          extracted_attendance_data[1][
                              parent_key(r, ToString(m), age_groups[a])] = 0
        /\ Cardinality(DOMAIN extracted_attendance_data[1])
               = Len(program_consolidation_rules) * LastMonth * Len(age_groups)

\* The raw map holds Prog_C = 1 for month 3, age band 4-6, and nothing for
\* Prog_N: the consolidated Prog_C entry is 1 and the Prog_N entry is 0.
C11_Witness ==
    /\ extracted_attendance_data # None
    /\ DOMAIN raw_attendance_data =
           {<<"Prog", "_", "C", "_", "Month", "_", "3", "_", "4-6", ": ">>}
    /\ raw_attendance_data[<<"Prog", "_", "C", "_", "Month", "_", "3", "_", "4-6", ": ">>]
           = IntCell(1)
    /\ extracted_attendance_data[1][<<"Prog", "_", "C", "_", "Month", "_", "3", "_", "4-6", ": ">>]
           = 10
    /\ <<"Prog", "_", "N", "_", "Month", "_", "3", "_", "4-6", ": ">>
           \in DOMAIN extracted_attendance_data[1]
    /\ extracted_attendance_data[1][<<"Prog", "_", "N", "_", "Month", "_", "3", "_", "4-6", ": ">>]
           = 0

(***************************************************************************)
(* Frame of the repair pass (SpecBoundary)                                 *)
(***************************************************************************)
full_name_of(c) ==
    program_name_mappings[CHOOSE i \in 1..Len(program_name_mappings) :
                              program_name_mappings[i][2] = c][1]

\* The largest row of the sheet whose program-name cell is the full name of c,
\* absent when there is none.
largest_matching_row(c) ==
    LET rows == {i \in 1..Len(student_attendance_data[1]) :
                    student_attendance_data[1][i].c1 = StrCell(full_name_of(c))}
    IN  IF rows = {} THEN None
        ELSE Some(CHOOSE i \in rows : \A j \in rows : j <= i)

\* After the pass, target keeps its own largest matching row (or absent) when
\* one of the starts in `needs` is absent from the resolved boundaries.
kept_when_absent(target, needs) ==
    (\E c \in needs : ~present(resolved[c].start)) =>
        program_boundaries[target].stop = largest_matching_row(target)

\* C14: a repair rule whose referenced start is absent makes no adjustment;
\* its target keeps the stop of independent resolution, the largest matching
\* row or absent: rule 1 needs Prog_C_TK.start and Prog_N.start, rule 2
\* Prog_N.start, rule 3 Prog_N_TK.start, a chain pair both its starts.
C14_AbsentStartKeepsStop ==
    pc = "STEP6" =>
        /\ kept_when_absent(Prog_C, {Prog_C_TK, Prog_N})
        /\ kept_when_absent(Prog_C_TK, {Prog_N})
        /\ kept_when_absent(Prog_N, {Prog_N_TK})
        /\ kept_when_absent(Prog_N_TK, {Prog_N_TK, Prog_J})
        /\ kept_when_absent(Prog_J, {Prog_J, Prog_K})

\* Prog_N_TK is named in rows 1 and 3 and Prog_J nowhere: Prog_N_TK keeps stop 3.
C14_Witness ==
    /\ pc = "STEP6"
    /\ resolved[Prog_N_TK] = [start |-> Some(1), stop |-> Some(3)]
    /\ ~present(resolved[Prog_J].start)
    /\ program_boundaries[Prog_N_TK].stop = Some(3)

\* b and c agree everywhere except, possibly, on the stop of target.
only_stop_of(target, b, c) ==
    /\ \A x \in Codes : c[x].start = b[x].start
    /\ \A x \in Codes \ {target} : c[x].stop = b[x].stop

\* The five rules applied in turn to b write only the stop of their own target,
\* so no rule touches a stop an earlier rule set, a start, or another program.
one_writer_each(b) ==
    LET b1 == adjust_Prog_C(b)
        b2 == adjust_Prog_C_TK(b1, b[Prog_N].start)
        b3 == adjust_Prog_N(b2)
        b4 == adjust_pair(b3, 1)
        b5 == adjust_pair(b4, 2)
    IN  /\ only_stop_of(Prog_C, b, b1)
        /\ only_stop_of(Prog_C_TK, b1, b2)
        /\ only_stop_of(Prog_N, b2, b3)
        /\ only_stop_of(Prog_N_TK, b3, b4)
        /\ only_stop_of(Prog_J, b4, b5)
        /\ b5 = adjust_program_boundaries(b)

\* C15: the repair pass writes only the stops of Prog_C, Prog_C_TK, Prog_N,
\* Prog_N_TK and Prog_J, each by one rule at most; it changes no start and
\* leaves the boundaries of the seven other programs as they were; so it does
\* on the resolved boundaries and on those with the ends of one program typed.
C15_RepairFrame ==
    /\ pc = "STEP6" =>
           /\ \A c \in Codes : program_boundaries[c].start = resolved[c].start
           /\ \A c \in Codes \ {Prog_C, Prog_C_TK, Prog_N, Prog_N_TK, Prog_J} :
                  program_boundaries[c] = resolved[c]
           /\ one_writer_each(resolved)
    /\ pc = "STEP5" =>
           \A c \in BoundaryCodes : \A typed \in TypedBoundaries(MaxBoundaryRows) :
               one_writer_each([program_boundaries EXCEPT ![c] = typed])

\* Prog_N, Prog_N_TK and Prog_J named in rows 1, 2 and 3: rules 2, 3 and the
\* first chain pair each write their own stop; the starts and Prog_J, Prog_K
\* are as resolved.
C15_Witness ==
    /\ pc = "STEP6"
    /\ resolved[Prog_N].start = Some(1)
    /\ resolved[Prog_N_TK].start = Some(2)
    /\ resolved[Prog_J].start = Some(3)
    /\ program_boundaries[Prog_C_TK] = [start |-> None, stop |-> Some(0)]
    /\ program_boundaries[Prog_N] = [start |-> Some(1), stop |-> Some(1)]
    /\ program_boundaries[Prog_N_TK] = [start |-> Some(2), stop |-> Some(2)]
    /\ program_boundaries[Prog_J] = [start |-> Some(3), stop |-> Some(3)]
    /\ program_boundaries[Prog_K] = [start |-> None, stop |-> None]

(***************************************************************************)
(* Rows outside every span (SpecExtract)                                   *)
(***************************************************************************)
\* C16: a month row in no program's complete span gives the raw map no key
\* (a span with an absent end contains no row): extraction makes no assignment
\* for such a row, and every key of the raw map is the key of a month row
\* inside the complete span of some program.
C16_OnlyRowsInSpans ==
    pc = "STEP9" =>
        /\ \A kj \in month_positions :
               (\A c \in Codes : ~contains(c, row_at(kj))) =>
                   \A n \in 1..Len(writes) : writes[n].row # row_at(kj)
        /\ \A n \in 1..Len(writes) : contains(writes[n].program, writes[n].row)
        /\ \A key \in DOMAIN raw_attendance_data :
               \E kj \in month_positions : \E c \in Codes :
                   /\ contains(c, row_at(kj))
                   /\ key_of(c, row_at(kj)) = key

\* Rows 1 and 2 both hold month 1; Prog_C has start 1 and no stop, Prog_C_TK
\* is [2, 2]: row 1 gives no key, the raw map holds the key of row 2 only.
C16_Witness ==
    /\ pc = "STEP9"
    /\ Len(sheet) = 2
    /\ sheet[1].c2 = IntCell(1)
    /\ sheet[2].c2 = IntCell(1)
    /\ program_boundaries[Prog_C] = [start |-> Some(1), stop |-> None]
    /\ program_boundaries[Prog_C_TK] = [start |-> Some(2), stop |-> Some(2)]
    /\ DOMAIN raw_attendance_data = {key_of(Prog_C_TK, 2)}
    /\ Len(writes) = 1

(***************************************************************************)
(* Properties of the scans (SpecScan)                                      *)
(***************************************************************************)
strictly_ascending(rows) ==
    \A i \in 1..(Len(rows) - 1) : rows[i] < rows[i + 1]

\* The month cell reads as the whole number m: an int m, a float whose whole
\* part is m, or the decimal numeral of m as text.
reads_as_month(cell, m) ==
    \/ cell.t = "int" /\ cell.n = m
    \/ cell.t = "float" /\ cell.n = m
    \/ cell.t = "str" /\ cell.s = ToString(m)

\* C18: each scan returns, strictly ascending, exactly the 1-based indices of
\* the matching rows of the whole sheet: for a program name, the rows whose
\* program-name cell is that very text; for a month, the rows whose month cell
\* reads as that whole number, empty and unparseable cells being skipped.
C18_ScanResults ==
    pc = "scanned" =>
        /\ matching_row_numbers.scan = "program" =>
               \A name \in FullNames :
                   /\ strictly_ascending(matching_row_numbers.rows[name])
                   /\ Range(matching_row_numbers.rows[name]) =
                          {i \in 1..Len(sheet) : sheet[i].c1 = StrCell(name)}
        /\ matching_row_numbers.scan = "month" =>
               \A m \in 1..LastMonth :
                   /\ strictly_ascending(matching_row_numbers.rows[m])
                   /\ Range(matching_row_numbers.rows[m]) =
                          {i \in 1..Len(sheet) : reads_as_month(sheet[i].c2, m)}

\* Month cells "abc" and 1: the scan for month 1 skips row 1 and returns row 2.
C18_Witness ==
    /\ pc = "scanned"
    /\ matching_row_numbers.scan = "month"
    /\ Len(sheet) = 2
    /\ sheet[1].c2 = StrCell("abc")
    /\ sheet[2].c2 = IntCell(1)
    /\ matching_row_numbers.rows[1] = <<2>>
    /\ matching_row_numbers.rows[12] = <<>>

(***************************************************************************)
(* The console script from the sheet to the printed totals (SpecScript)    *)
(***************************************************************************)
\* The months 1..12 that at least one row of the sheet holds.
months_with_rows ==
    {m \in 1..LastMonth : \E i \in 1..Len(sheet) : reads_as_month(sheet[i].c2, m)}

\* C12: the keys the console script generates for consolidation are exactly
\* parents x M x age bands, once each, where M is the set of months 1..12 that
\* have at least one matching row in the sheet.
C12_KeySet ==
    pc \in {"done", "TypeError"} =>
        /\ Range(all_keys) =
               {parent_key(r, ToString(m), age_groups[a]) :
                    r \in 1..Len(program_consolidation_rules),
                    m \in months_with_rows,
                    a \in 1..Len(age_groups)}
        /\ Len(all_keys) = Len(program_consolidation_rules)
                               * Cardinality(months_with_rows) * Len(age_groups)

\* Month cells 2 and 13: keys are generated for month 2 alone, 32 of them.
C12_Witness ==
    /\ pc = "done"
    /\ Len(sheet) = 2
    /\ sheet[1].c2 = IntCell(2)
    /\ sheet[2].c2 = IntCell(13)
    /\ Len(all_keys) = 32
    /\ <<"Prog", "_", "J", "_", "Month", "_", "2", "_", "9-12", ": ">>
           \in Range(all_keys)

\* C17: a program whose full name is the program-name cell of no row is the
\* program of no extracted row and the program code of no key of the raw map,
\* after scan, resolution, repair and extraction with every boundary accepted.
C17_NotFoundNeverAssigned ==
    pc \in {"STEP9", "done", "TypeError"} =>
        \A i \in 1..Len(short_codes) :
            (\A r \in 1..Len(sheet) :
                 sheet[r].c1 # StrCell(full_name_of(short_codes[i]))) =>
                /\ \A k \in 1..Len(writes) : writes[k].program # short_codes[i]
                /\ \A key \in DOMAIN raw_attendance_data :
                       before_Month(key, 1) # short_codes[i]

\* Program C at row 1 with month 1, Program N at row 2: the repair gives the
\* unfound Prog_C_TK the stop 1 and no start, and row 1 is extracted for
\* Prog_C alone.
C17_Witness ==
    /\ pc = "STEP9"
    /\ Len(sheet) = 2
    /\ sheet[1].c1 = StrCell("Program C Charter Resident")
    /\ sheet[2].c1 = StrCell("Program N Non-Resident Charter")
    /\ sheet[1].c2 = IntCell(1)
    /\ program_boundaries[Prog_C_TK] = [start |-> None, stop |-> Some(1)]
    /\ {writes[k].program : k \in 1..Len(writes)} = {Prog_C}
    /\ DOMAIN raw_attendance_data =
           {<<"Prog", "_", "C", "_", "Month", "_", "1", "_", "4-6", ": ">>}

\* C19: on every sheet of text, number and empty cells the scans, resolution,
\* repair, extraction and consolidation finish without raising.
C19_NoError == pc # "TypeError"

(***************************************************************************)
(* One GUI audit run over the months 1..12 (SpecAudit)                     *)
(***************************************************************************)
\* C13: in the map the GUI consolidates over the months 1..12, every entry of a
\* month that no row of the sheet holds is exactly 0, whatever the sheet and
\* the boundaries.
C13_ZeroForMonthsWithoutRows ==
    extracted_attendance_data # None =>
        \A m \in 1..LastMonth :
            m \notin months_with_rows =>
                \A r \in 1..Len(program_consolidation_rules) :
                    \A a \in 1..Len(age_groups) :
                        extracted_attendance_data[1][
                            parent_key(r, ToString(m), age_groups[a])] = 0

\* One row, month 1, inside Prog_C = [1, 1]: the Prog_C entry of month 1 is 5,
\* the entries of month 2, which no row holds, are 0.
C13_Witness ==
    /\ extracted_attendance_data # None
    /\ Len(sheet) = 1
    /\ sheet[1].c2 = IntCell(1)
    /\ program_boundaries[Prog_C] = [start |-> Some(1), stop |-> Some(1)]
    /\ extracted_attendance_data[1][<<"Prog", "_", "C", "_", "Month", "_", "1", "_", "4-6", ": ">>]
           = 50
    /\ extracted_attendance_data[1][<<"Prog", "_", "C", "_", "Month", "_", "2", "_", "4-6", ": ">>]
           = 0

(***************************************************************************)
(* The worker thread and the main thread of the GUI (Spec)                 *)
(***************************************************************************)
\* C20: while a worker thread is between its month scan and its extraction, the
\* sheet it scanned is still the sheet extraction will read: the rows it found
\* for each month are those of the sheet as it is now.
C20_ConsistentView ==
    \A thread \in BagToSet(audit_threads) :
        thread.pc = "Step 2" =>
            thread.monthly_attendance_by_program =
                scan_months(student_attendance_data[1], FALSE, 1)

(***************************************************************************)
(* Shape of the repaired boundaries (SpecBoundary)                         *)
(***************************************************************************)
\* C26: after resolution and the repair pass every program has its start and
\* its stop both present or both absent.
C26_BothOrNeither ==
    pc = "STEP6" =>
        \A i \in 1..Len(short_codes) :
            present(program_boundaries[short_codes[i]].start)
                <=> present(program_boundaries[short_codes[i]].stop)

(***************************************************************************)
(* The month text of the raw keys (SpecExtract)                            *)
(***************************************************************************)
\* C25: every key extraction produces from a row of month m's row list has m
\* as its month component: the month cell of the row renders as the number
\* under which the row was scanned.
C25_MonthComponent ==
    pc = "STEP9" =>
        \A kj \in month_positions : \A c \in Codes :
            contains(c, row_at(kj)) =>
                key_of(c, row_at(kj)) =
                    field_name(c,
                               <<ToString(monthly_attendance_by_program[kj[1]][1])>>,
                               format(sheet[row_at(kj)].c4))

(***************************************************************************)
(* Every raw value counted once (SpecConsolidate)                          *)
(***************************************************************************)
\* The sum of d[k] over the keys k of the set keys.
RECURSIVE sum_values(_, _)
sum_values(d, keys) ==
    IF keys = {} THEN 0
    ELSE LET k == CHOOSE x \in keys : TRUE
         IN  d[k] + sum_values(d, keys \ {k})

\* The raw values, in tenths, NaN counting 0.
raw_tenths ==
    [key \in DOMAIN raw_attendance_data |->
        IF raw_attendance_data[key].t = "nan" THEN 0
        ELSE tenths(raw_attendance_data[key])]

\* The raw keys of a program code, a month of `months` and one of the four age
\* bands.
countable_keys(months) ==
    {key \in DOMAIN raw_attendance_data :
        \E c \in Codes : \E m \in months : \E a \in 1..Len(age_groups) :
            key = field_name(c, <<ToString(m)>>, <<age_groups[a]>>)}

\* The rules of which code c is a child.
parents_of(c) ==
    {r \in 1..Len(program_consolidation_rules) :
        c \in Range(program_consolidation_rules[r][2])}

\* C27: every program code is a child of exactly one parent and every parent
\* is its own child; so the consolidated values add up to the non-NaN raw
\* values of the processed months and the four age bands: in the GUI's map
\* over the months 1..12, and in the console's printed totals over the
\* available months.
C27_CountedOnce ==
    /\ \A c \in Codes : Cardinality(parents_of(c)) = 1
    /\ \A r \in 1..Len(program_consolidation_rules) :
           r \in parents_of(program_consolidation_rules[r][1])
    /\ extracted_attendance_data # None =>
           sum_values(extracted_attendance_data[1],
                      {key \in DOMAIN extracted_attendance_data[1] :
                          extracted_attendance_data[1][key] # 0})
               = sum_values(raw_tenths, countable_keys(1..LastMonth))
    /\ pc = "done" =>
           sum_values([n \in 1..Len(printed) |-> printed[n][2]], 1..Len(printed))
               = sum_values(raw_tenths, countable_keys(Range(available_months)))

\* Prog_C = 1, Prog_C_CM = 1.5 and Prog_C_SYC = 1 for month 3, age band 4-6: the
\* GUI's map has the single non-zero entry Prog_C = 3.5.
C27_Witness ==
    /\ extracted_attendance_data # None
    /\ DOMAIN raw_attendance_data =
           {<<"Prog", "_", "C", "_", "Month", "_", "3", "_", "4-6", ": ">>,
            <<"Prog", "_", "C", "_", "CM", "_", "Month", "_", "3", "_", "4-6", ": ">>,
            <<"Prog", "_", "C", "_", "SYC", "_", "Month", "_", "3", "_", "4-6", ": ">>}
    /\ raw_attendance_data[<<"Prog", "_", "C", "_", "CM", "_", "Month", "_", "3", "_", "4-6", ": ">>]
           = FloatCell(1, 5)
    /\ sum_values(raw_tenths, DOMAIN raw_attendance_data) = 35
    /\ {key \in DOMAIN extracted_attendance_data[1] :
           extracted_attendance_data[1][key] # 0}
           = {<<"Prog", "_", "C", "_", "Month", "_", "3", "_", "4-6", ": ">>}
    /\ extracted_attendance_data[1][<<"Prog", "_", "C", "_", "Month", "_", "3", "_", "4-6", ": ">>]
           = 35

(***************************************************************************)
(* The number of audit workers (Spec)                                      *)
(***************************************************************************)
\* C23: at any time at most one audit worker thread exists: a second run is
\* never started while a run is in progress.
C23_AtMostOne == BagCardinality(audit_threads) <= 1

\* C28: a run that fails, by an exception in the scan, extraction,
\* consolidation or the writing of the Excel file, leaves
\* extracted_attendance_data as it was, so that a failed run never makes
\* Export Results available.
C28_FailedRunKeepsResult ==
    [][execute_audit_process_except =>
           extracted_attendance_data' = extracted_attendance_data]_vars

(***************************************************************************)
(* Reset Sort (SpecSort)                                                   *)
(***************************************************************************)
\* C30: after any sequence of column sorts, Reset Sort shows the rows in their
\* original order, the iteration order of the boundary mapping, with no column
\* marked as sorted: whenever no column is marked, the table is in that order.
C30_ResetRestoresOrder ==
    (sort_column = None /\ boundaries_tree # <<>>) =>
        /\ ~sort_reverse
        /\ Len(boundaries_tree) = Len(short_codes)
        /\ \A i \in 1..Len(short_codes) :
               boundaries_tree[i] =
                   <<short_codes[i], program_name_mappings[i][1],
                     program_boundaries[short_codes[i]].start,
                     program_boundaries[short_codes[i]].stop>>

(***************************************************************************)
(* Configurations and Load & Analyze (SpecConfig)                          *)
(***************************************************************************)
\* C24: loading a saved configuration by its name restores exactly the
\* boundaries that were current when it was last saved, the values its file
\* holds, whatever was edited or analyzed in between.
C24_LoadRestoresSaved ==
    [][load_selected =>
           \E config_name \in ConfigNames :
               /\ settings_directory[config_name] # None
               /\ program_boundaries' = settings_directory[config_name][1]]_vars

C22_InputsUnchanged ==
    [][/\ student_attendance_data' = student_attendance_data
       /\ program_boundaries' = program_boundaries
       /\ \A thread \in BagToSet(audit_threads) :
              (thread.pc = "Step 2" /\ audit_threads' = EmptyBag) =>
                  raw_attendance_data' =
                      extract_student_attendance_data(
                          thread.monthly_attendance_by_program,
                          program_boundaries, student_attendance_data[1])]_vars

\* A finished run on two rows of month 1 with Prog_C typed as [1, absent] by
\* hand: the override is still there and nothing was extracted for it.
C22_Witness ==
    /\ audit_threads = EmptyBag
    /\ extracted_attendance_data # None
    /\ Len(sheet) = 2
    /\ sheet[1].c2 = IntCell(1) /\ sheet[2].c2 = IntCell(1)
    /\ program_boundaries[Prog_C] = [start |-> Some(1), stop |-> None]
    /\ raw_attendance_data = NoDict

(***************************************************************************)
(* The end of every audit run (SpecLive)                                   *)
(***************************************************************************)
\* A step that ends a worker thread: fewer threads are left after it.
thread_ends == BagCardinality(audit_threads') < BagCardinality(audit_threads)

\* C29: every started run eventually ends: as long as worker threads exist,
\* threads keep ending.  The step that ends a run puts the progress value at
\* 0 and enables the Run button when the input path, the output path and the
\* data are still set; a Run button that a run disabled does not stay disabled
\* for ever while both paths are set.
C29_RunsEnd ==
    /\ [][thread_ends =>
              /\ progress_var' = 0
              /\ (/\ input_file_path' # ""
                  /\ output_file_path' # ""
                  /\ student_attendance_data' # None) => run_button' = "normal"]_vars
    /\ \/ []<><<thread_ends>>_audit_threads
       \/ <>[](audit_threads = EmptyBag)
    /\ (run_button = "disabled" /\ audit_threads # EmptyBag)
           ~> (run_button = "normal" \/ output_file_path = "")

\* A run has ended with both paths set: its result is stored, no thread is
\* left, the progress value is 0 and the Run button is enabled.
C29_Witness ==
    /\ audit_threads = EmptyBag
    /\ extracted_attendance_data # None
    /\ input_file_path # "" /\ output_file_path # ""
    /\ progress_var = 0
    /\ run_button = "normal"

====
